---- MODULE Spec2Model ----
(***************************************************************************)
(* Broad-phase core of box2d: b2DynamicTree (arena, InsertLeaf,            *)
(* RemoveLeaf, Balance, proxy operations) and b2BroadPhase (move buffer,   *)
(* pair buffer, UpdatePairs).                                              *)
(*                                                                         *)
(* Lengths are fixed-point: one model unit is 0.01 world units, so that    *)
(* b2_aabbExtension (0.1) is 10 and the scenario boxes of the              *)
(* specification ([(0,0),(1,1)], a shift of 0.01, ...) are integers.       *)
(* b2TreeNode::parent and b2TreeNode::next are one field (a union); the    *)
(* model keeps it as the single field "parent".                            *)
(* m_moveBuffer and m_pairBuffer are modelled by their first m_moveCount / *)
(* m_pairCount entries: every loop of the code is bounded by the count,    *)
(* so the tail of the allocation is never read.                            *)
(* m_insertionCount is written by InsertLeaf and read nowhere; it is not   *)
(* part of the model state.                                                *)
(***************************************************************************)
EXTENDS Integers, Sequences, FiniteSets, TLC

\* ------------------------------------------------------------------ bounds
\* Spec: live proxies and move buffer entries
MaxProxies == 2
MaxMoves == 3
\* SpecMove: live proxies and move buffer entries
MaxMoveProxies == 2
MaxMoveMoves == 1
\* SpecStep: proxies created before the first step, move buffer entries
StepProxies == 2
StepMoves == 3
\* SpecTree: live proxies, and CreateProxy plus restructuring MoveProxy calls
TreeProxies == 4
TreeMoves == 5
\* SpecGrow: live proxies, and CreateProxy calls
GrowProxies == 9
GrowMoves == 11
\* SpecInvalid: live proxies, and CreateProxy calls before the invalid call
InvalidProxies == 3
InvalidMoves == 4
\* SpecStack: the depth up to which the size of an allocation is chosen freely
StackChoiceDepth == 2
RayProxies == 3
BlockChoiceDepth == 2
BlockFill == 27
\* SpecRebuild: proxies alive, and leaf insertions, between rebuilds
RebuildProxies == 3
RebuildMoves == 4
\* SpecBuffers: proxies alive, the number of buffered moves up to which the
\* proxy of a move is chosen freely, and the number of buffered moves in all
\* (the move buffer grows at its 17th and at its 33rd entry)
BufferProxies == 2
BufferChoiceDepth == 1
BufferMoves == 33
\* SpecShift: proxies alive, buffered moves, and how far the origin gets from
\* where it started
ShiftProxies == 2
ShiftMoves == 3
ShiftRange == 300
RayMoves == 4

\* ------------------------------------------------------- program constants
b2_nullNode == -1
e_nullProxy == -1
b2_aabbExtension == 10
b2_aabbMultiplier == 4
InitialNodeCapacity == 16
InitialMoveCapacity == 16
InitialPairCapacity == 16

nullptr == "nullptr"
b2_stackSize == 100 * 1024
b2_maxStackEntries == 32
b2_blockSizeCount == 14
b2_chunkSize == 16 * 1024
b2_maxBlockSize == 640

\* ---------------------------------------------------------------- geometry
Vec(x, y) == [x |-> x, y |-> y]
AABB(lx, ly, ux, uy) == [lowerBound |-> Vec(lx, ly), upperBound |-> Vec(ux, uy)]

b2Min(a, b) == IF a < b THEN a ELSE b
b2Max(a, b) == IF a > b THEN a ELSE b

GetPerimeter(a) ==
    LET wx == a.upperBound.x - a.lowerBound.x
        wy == a.upperBound.y - a.lowerBound.y
    IN 2 * (wx + wy)

Combine(aabb1, aabb2) ==
    [lowerBound |-> Vec(b2Min(aabb1.lowerBound.x, aabb2.lowerBound.x),
                        b2Min(aabb1.lowerBound.y, aabb2.lowerBound.y)),
     upperBound |-> Vec(b2Max(aabb1.upperBound.x, aabb2.upperBound.x),
                        b2Max(aabb1.upperBound.y, aabb2.upperBound.y))]

\* this.Contains(aabb)
Contains(this, aabb) ==
    /\ this.lowerBound.x <= aabb.lowerBound.x
    /\ this.lowerBound.y <= aabb.lowerBound.y
    /\ aabb.upperBound.x <= this.upperBound.x
    /\ aabb.upperBound.y <= this.upperBound.y

b2TestOverlap(a, b) ==
    LET d1 == Vec(b.lowerBound.x - a.upperBound.x, b.lowerBound.y - a.upperBound.y)
        d2 == Vec(a.lowerBound.x - b.upperBound.x, a.lowerBound.y - b.upperBound.y)
    IN IF d1.x > 0 \/ d1.y > 0 THEN FALSE
       ELSE IF d2.x > 0 \/ d2.y > 0 THEN FALSE
       ELSE TRUE

\* ------------------------------------------------------------- tree arena
\* A tree value T is the record of b2DynamicTree's members:
\*   nodes (m_nodes[0 .. m_nodeCapacity-1]), root, freeList, nodeCount,
\*   nodeCapacity.
ZeroNode ==
    [aabb |-> AABB(0, 0, 0, 0), userData |-> nullptr, parent |-> 0,
     child1 |-> 0, child2 |-> 0, height |-> 0, moved |-> FALSE]

\* What a field holds that the code has not written since b2Alloc handed out
\* its memory, or a member that no constructor has set: no value the model can
\* name, since it is whatever the bytes were. A b2TreeNode slot that
\* AllocateNode has not yet returned holds it in every field but next and
\* height; userData, which is written with every allocation, tells.
Indeterminate == "indeterminate"
FreshNode(next) ==
    [aabb |-> Indeterminate, userData |-> Indeterminate, parent |-> next,
     child1 |-> Indeterminate, child2 |-> Indeterminate, height |-> -1,
     moved |-> Indeterminate]
IsFresh(node) == node.userData = Indeterminate

IsLeaf(node) == node.child1 = b2_nullNode

\* b2DynamicTree::b2DynamicTree
NewTree ==
    [nodes |-> [i \in 0 .. InitialNodeCapacity - 1 |->
                  [ZeroNode EXCEPT !.parent = IF i = InitialNodeCapacity - 1
                                               THEN b2_nullNode ELSE i + 1,
                                   !.height = -1]],
     root |-> b2_nullNode,
     freeList |-> 0,
     nodeCount |-> 0,
     nodeCapacity |-> InitialNodeCapacity]

\* GrowPool that starts the free list one slot too far.
GrowPool_SkipsSlot(T) ==
    LET cap == 2 * T.nodeCapacity
    IN [T EXCEPT !.nodeCapacity = cap,
                 !.nodes = [i \in 0 .. cap - 1 |->
                              IF i < T.nodeCount THEN T.nodes[i]
                              ELSE FreshNode(IF i = cap - 1 THEN b2_nullNode
                                             ELSE i + 1)],
                 !.freeList = T.nodeCount + 1]

\* The growth branch of AllocateNode. The new block comes from b2Alloc and
\* only next and height of the fresh slots are written: their other fields
\* hold whatever the heap held.
GrowPool(T) ==
    LET cap == 2 * T.nodeCapacity
    IN [T EXCEPT !.nodeCapacity = cap,
                 !.nodes = [i \in 0 .. cap - 1 |->
                              IF i < T.nodeCount THEN T.nodes[i]
                              ELSE FreshNode(IF i = cap - 1 THEN b2_nullNode
                                             ELSE i + 1)],
                 !.freeList = T.nodeCount]

\* b2DynamicTree::AllocateNode: the tree afterwards and the slot returned.
AllocateNode(T) ==
    LET \* Peel a node off the free list of pool S.
        Take(S) ==
            LET nodeId == S.freeList
            IN [T |-> [S EXCEPT !.freeList = S.nodes[nodeId].parent,
                                !.nodes[nodeId].parent = b2_nullNode,
                                !.nodes[nodeId].child1 = b2_nullNode,
                                !.nodes[nodeId].child2 = b2_nullNode,
                                !.nodes[nodeId].height = 0,
                                !.nodes[nodeId].userData = nullptr,
                                !.nodes[nodeId].moved = FALSE,
                                !.nodeCount = S.nodeCount + 1],
                id |-> nodeId]
    IN Take(IF T.freeList = b2_nullNode THEN GrowPool(T) ELSE T)

\* FreeNode that leaves the height of the freed node as it was.
FreeNode_KeepHeight(T, nodeId) ==
    [T EXCEPT !.nodes[nodeId].parent = T.freeList,
              !.freeList = nodeId,
              !.nodeCount = T.nodeCount - 1]

\* b2DynamicTree::FreeNode
FreeNode(T, nodeId) ==
    [T EXCEPT !.nodes[nodeId].parent = T.freeList,
              !.nodes[nodeId].height = -1,
              !.freeList = nodeId,
              !.nodeCount = T.nodeCount - 1]

\* ------------------------------------------------------------- Balance
\* The "Rotate C up" branch of Balance (balance > 1).
RotateCUp(T, iA, iB, iC) ==
    LET iF == T.nodes[iC].child1
        iG == T.nodes[iC].child2
        \* Swap A and C
        Swap(S) ==
            [S EXCEPT !.nodes[iC].child1 = iA,
                      !.nodes[iC].parent = S.nodes[iA].parent,
                      !.nodes[iA].parent = iC]
        \* A's old parent should point to C
        Reparent(S) ==
            LET p == S.nodes[iC].parent
            IN IF p # b2_nullNode
               THEN IF S.nodes[p].child1 = iA
                    THEN [S EXCEPT !.nodes[p].child1 = iC]
                    ELSE [S EXCEPT !.nodes[p].child2 = iC]
               ELSE [S EXCEPT !.root = iC]
        \* Rotate: hi stays under C, lo goes to A
        Relink(S, hi, lo) ==
            [S EXCEPT !.nodes[iC].child2 = hi,
                      !.nodes[iA].child2 = lo,
                      !.nodes[lo].parent = iA]
        FitA(S, lo) ==
            [S EXCEPT !.nodes[iA].aabb = Combine(S.nodes[iB].aabb, S.nodes[lo].aabb)]
        FitUp(S, hi) ==
            [S EXCEPT !.nodes[iC].aabb = Combine(S.nodes[iA].aabb, S.nodes[hi].aabb)]
        HeightA(S, lo) ==
            [S EXCEPT !.nodes[iA].height =
                          1 + b2Max(S.nodes[iB].height, S.nodes[lo].height)]
        HeightUp(S, hi) ==
            [S EXCEPT !.nodes[iC].height =
                          1 + b2Max(S.nodes[iA].height, S.nodes[hi].height)]
        Rotate(S, hi, lo) ==
            HeightUp(HeightA(FitUp(FitA(Relink(S, hi, lo), lo), hi), lo), hi)
        Choose(S) ==
            IF S.nodes[iF].height > S.nodes[iG].height
            THEN Rotate(S, iF, iG)
            ELSE Rotate(S, iG, iF)
    IN [T |-> Choose(Reparent(Swap(T))), id |-> iC]

\* The "Rotate B up" branch of Balance (balance < -1).
RotateBUp(T, iA, iB, iC) ==
    LET iD == T.nodes[iB].child1
        iE == T.nodes[iB].child2
        \* Swap A and B
        Swap(S) ==
            [S EXCEPT !.nodes[iB].child1 = iA,
                      !.nodes[iB].parent = S.nodes[iA].parent,
                      !.nodes[iA].parent = iB]
        \* A's old parent should point to B
        Reparent(S) ==
            LET p == S.nodes[iB].parent
            IN IF p # b2_nullNode
               THEN IF S.nodes[p].child1 = iA
                    THEN [S EXCEPT !.nodes[p].child1 = iB]
                    ELSE [S EXCEPT !.nodes[p].child2 = iB]
               ELSE [S EXCEPT !.root = iB]
        \* Rotate: hi stays under B, lo goes to A
        Relink(S, hi, lo) ==
            [S EXCEPT !.nodes[iB].child2 = hi,
                      !.nodes[iA].child1 = lo,
                      !.nodes[lo].parent = iA]
        FitA(S, lo) ==
            [S EXCEPT !.nodes[iA].aabb = Combine(S.nodes[iC].aabb, S.nodes[lo].aabb)]
        FitUp(S, hi) ==
            [S EXCEPT !.nodes[iB].aabb = Combine(S.nodes[iA].aabb, S.nodes[hi].aabb)]
        HeightA(S, lo) ==
            [S EXCEPT !.nodes[iA].height =
                          1 + b2Max(S.nodes[iC].height, S.nodes[lo].height)]
        HeightUp(S, hi) ==
            [S EXCEPT !.nodes[iB].height =
                          1 + b2Max(S.nodes[iA].height, S.nodes[hi].height)]
        Rotate(S, hi, lo) ==
            HeightUp(HeightA(FitUp(FitA(Relink(S, hi, lo), lo), hi), lo), hi)
        Choose(S) ==
            IF S.nodes[iD].height > S.nodes[iE].height
            THEN Rotate(S, iD, iE)
            ELSE Rotate(S, iE, iD)
    IN [T |-> Choose(Reparent(Swap(T))), id |-> iB]

\* Faulty variant of Balance: it rotates as soon as the children's heights
\* differ.
Balance_RotatesAtOne(T, iA) ==
    LET A == T.nodes[iA]
    IN IF IsLeaf(A) \/ A.height < 2 THEN [T |-> T, id |-> iA]
       ELSE LET iB == A.child1
                iC == A.child2
                balance == T.nodes[iC].height - T.nodes[iB].height
            IN IF balance > 0 THEN RotateCUp(T, iA, iB, iC)
               ELSE IF balance < 0 THEN RotateBUp(T, iA, iB, iC)
               ELSE [T |-> T, id |-> iA]

\* Faulty variant of Balance: after a rotation A's new child is the
\* grandchild the promoted node keeps, and the other grandchild is dropped.
Balance_DropsGrandchild(T, iA) ==
    LET A == T.nodes[iA]
        DropC(r, iC) ==
            [T |-> [r.T EXCEPT !.nodes[iA].child2 = r.T.nodes[iC].child2], id |-> iC]
        DropB(r, iB) ==
            [T |-> [r.T EXCEPT !.nodes[iA].child1 = r.T.nodes[iB].child2], id |-> iB]
    IN IF IsLeaf(A) \/ A.height < 2 THEN [T |-> T, id |-> iA]
       ELSE LET iB == A.child1
                iC == A.child2
                balance == T.nodes[iC].height - T.nodes[iB].height
            IN IF balance > 1 THEN DropC(RotateCUp(T, iA, iB, iC), iC)
               ELSE IF balance < -1 THEN DropB(RotateBUp(T, iA, iB, iC), iB)
               ELSE [T |-> T, id |-> iA]

\* b2DynamicTree::Balance: the tree afterwards and the index returned.
Balance(T, iA) ==
    LET A == T.nodes[iA]
    IN IF IsLeaf(A) \/ A.height < 2 THEN [T |-> T, id |-> iA]
       ELSE LET iB == A.child1
                iC == A.child2
                balance == T.nodes[iC].height - T.nodes[iB].height
            IN IF balance > 1 THEN RotateCUp(T, iA, iB, iC)
               ELSE IF balance < -1 THEN RotateBUp(T, iA, iB, iC)
               ELSE [T |-> T, id |-> iA]

\* ---------------------------------------------------------- InsertLeaf
\* One round of the sibling descent of InsertLeaf at the internal node index:
\* whether the descent stops there, and the child it goes down to if not.
Descend(T, leafAABB, index) ==
      LET child1 == T.nodes[index].child1
          child2 == T.nodes[index].child2
          area == GetPerimeter(T.nodes[index].aabb)
          combinedArea == GetPerimeter(Combine(T.nodes[index].aabb, leafAABB))
          cost == 2 * combinedArea
          inheritanceCost == 2 * (combinedArea - area)
          DescendCost(child) ==
              IF IsLeaf(T.nodes[child])
              THEN GetPerimeter(Combine(leafAABB, T.nodes[child].aabb)) + inheritanceCost
              ELSE (GetPerimeter(Combine(leafAABB, T.nodes[child].aabb))
                      - GetPerimeter(T.nodes[child].aabb)) + inheritanceCost
          cost1 == DescendCost(child1)
          cost2 == DescendCost(child2)
      IN [stop |-> cost < cost1 /\ cost < cost2,
          child |-> IF cost1 < cost2 THEN child1 ELSE child2]

\* The sibling descent of InsertLeaf, from index down.
RECURSIVE FindSibling(_, _, _)
FindSibling(T, leafAABB, index) ==
    IF IsLeaf(T.nodes[index]) THEN index
    ELSE
      LET Go(d) == IF d.stop THEN index ELSE FindSibling(T, leafAABB, d.child)
      IN Go(Descend(T, leafAABB, index))

\* One step of the walk that goes on from the node it called Balance with,
\* not from the node Balance returned.
WalkStep_FromArgument(T, index) ==
    LET Refit(S, i) ==
            LET child1 == S.nodes[i].child1
                child2 == S.nodes[i].child2
            IN [T |-> [S EXCEPT
                         !.nodes[i].height =
                             1 + b2Max(S.nodes[child1].height, S.nodes[child2].height),
                         !.nodes[i].aabb =
                             Combine(S.nodes[child1].aabb, S.nodes[child2].aabb)],
                id |-> i]
        Step(b) == Refit(b.T, index)
    IN Step(Balance(T, index))

\* One step of the walk that refits the height and leaves the AABB.
WalkStep_KeepAABB(T, index) ==
    LET Refit(S, i) ==
            LET child1 == S.nodes[i].child1
                child2 == S.nodes[i].child2
            IN [T |-> [S EXCEPT
                         !.nodes[i].height =
                             1 + b2Max(S.nodes[child1].height, S.nodes[child2].height)],
                id |-> i]
        Step(b) == Refit(b.T, b.id)
    IN Step(Balance(T, index))

\* One step of the walk that refits the AABB and leaves the height.
WalkStep_KeepHeight(T, index) ==
    LET Refit(S, i) ==
            LET child1 == S.nodes[i].child1
                child2 == S.nodes[i].child2
            IN [T |-> [S EXCEPT
                         !.nodes[i].aabb =
                             Combine(S.nodes[child1].aabb, S.nodes[child2].aabb)],
                id |-> i]
        Step(b) == Refit(b.T, b.id)
    IN Step(Balance(T, index))

\* One step of the upward walk of InsertLeaf and of RemoveLeaf: Balance at
\* index, then height and aabb of the node Balance returned from its
\* children. The tree afterwards and that node.
WalkStep(T, index) ==
    LET Refit(S, i) ==
            LET child1 == S.nodes[i].child1
                child2 == S.nodes[i].child2
            IN [T |-> [S EXCEPT
                         !.nodes[i].height =
                             1 + b2Max(S.nodes[child1].height, S.nodes[child2].height),
                         !.nodes[i].aabb =
                             Combine(S.nodes[child1].aabb, S.nodes[child2].aabb)],
                id |-> i]
        Step(b) == Refit(b.T, b.id)
    IN Step(Balance(T, index))

\* The upward walk of InsertLeaf and of RemoveLeaf, from index to the root.
RECURSIVE FixUpward(_, _)
FixUpward(T, index) ==
    IF index = b2_nullNode THEN T
    ELSE
      LET Up(w) == FixUpward(w.T, w.T.nodes[w.id].parent)
      IN Up(WalkStep(T, index))

\* InsertLeaf from the end of the descent up to the walk: a new parent is
\* put between sibling and its old parent, with leaf as second child.
AttachLeaf(T, leaf, sibling) ==
    LET leafAABB == T.nodes[leaf].aabb
        \* Create a new parent for sibling and leaf.
        Attach ==
            LET oldParent == T.nodes[sibling].parent
                Fill(S, newParent) ==
                    [S EXCEPT
                       !.nodes[newParent].parent = oldParent,
                       !.nodes[newParent].userData = nullptr,
                       !.nodes[newParent].aabb = Combine(leafAABB, S.nodes[sibling].aabb),
                       !.nodes[newParent].height = S.nodes[sibling].height + 1]
                Hook(S, newParent) ==
                    IF oldParent # b2_nullNode
                    THEN \* The sibling was not the root.
                         IF S.nodes[oldParent].child1 = sibling
                         THEN [S EXCEPT !.nodes[oldParent].child1 = newParent]
                         ELSE [S EXCEPT !.nodes[oldParent].child2 = newParent]
                    ELSE \* The sibling was the root.
                         [S EXCEPT !.root = newParent]
                Join(S, newParent) ==
                    [S EXCEPT !.nodes[newParent].child1 = sibling,
                              !.nodes[newParent].child2 = leaf,
                              !.nodes[sibling].parent = newParent,
                              !.nodes[leaf].parent = newParent]
                Link(a) == Join(Hook(Fill(a.T, a.id), a.id), a.id)
            IN Link(AllocateNode(T))
    IN Attach

\* InsertLeaf up to the walk: the sibling is found and the leaf attached.
LinkLeaf(T, leaf) ==
    AttachLeaf(T, leaf, FindSibling(T, T.nodes[leaf].aabb, T.root))

\* InsertLeaf without the assignment of the leaf's parent: the leaf keeps
\* the null parent and the walk has nowhere to start.
InsertLeaf_LeafParentUnset(T, leaf) ==
    IF T.root = b2_nullNode
    THEN [T EXCEPT !.root = leaf, !.nodes[leaf].parent = b2_nullNode]
    ELSE LET Unset(S) == [S EXCEPT !.nodes[leaf].parent = b2_nullNode]
         IN Unset(LinkLeaf(T, leaf))

\* b2DynamicTree::InsertLeaf
InsertLeaf(T, leaf) ==
    IF T.root = b2_nullNode
    THEN [T EXCEPT !.root = leaf, !.nodes[leaf].parent = b2_nullNode]
    ELSE
      LET \* Walk back up the tree fixing heights and AABBs.
          Walk(S) == FixUpward(S, S.nodes[leaf].parent)
      IN Walk(LinkLeaf(T, leaf))

\* ---------------------------------------------------------- RemoveLeaf
\* Faulty variant of UnlinkLeaf: the sibling keeps pointing at the destroyed
\* parent.
UnlinkLeaf_StaleParent(T, leaf) ==
    LET parent == T.nodes[leaf].parent
        grandParent == T.nodes[parent].parent
        sibling == IF T.nodes[parent].child1 = leaf
                   THEN T.nodes[parent].child2
                   ELSE T.nodes[parent].child1
        T1 == IF T.nodes[grandParent].child1 = parent
              THEN [T EXCEPT !.nodes[grandParent].child1 = sibling]
              ELSE [T EXCEPT !.nodes[grandParent].child2 = sibling]
    IN FreeNode(T1, parent)

\* RemoveLeaf of a leaf with a grandparent, up to FreeNode(parent): the
\* sibling takes the parent's place under the grandparent.
ConnectSibling(T, leaf) ==
    LET parent == T.nodes[leaf].parent
        grandParent == T.nodes[parent].parent
        sibling == IF T.nodes[parent].child1 = leaf
                   THEN T.nodes[parent].child2
                   ELSE T.nodes[parent].child1
        T1 == IF T.nodes[grandParent].child1 = parent
              THEN [T EXCEPT !.nodes[grandParent].child1 = sibling]
              ELSE [T EXCEPT !.nodes[grandParent].child2 = sibling]
    IN [T1 EXCEPT !.nodes[sibling].parent = grandParent]

\* RemoveLeaf of a leaf with a grandparent, up to the walk: the sibling is
\* connected to the grandparent and the parent destroyed.
UnlinkLeaf(T, leaf) == FreeNode(ConnectSibling(T, leaf), T.nodes[leaf].parent)

\* b2DynamicTree::RemoveLeaf
RemoveLeaf(T, leaf) ==
    IF leaf = T.root THEN [T EXCEPT !.root = b2_nullNode]
    ELSE
      LET parent == T.nodes[leaf].parent
          grandParent == T.nodes[parent].parent
          sibling == IF T.nodes[parent].child1 = leaf
                     THEN T.nodes[parent].child2
                     ELSE T.nodes[parent].child1
      IN IF grandParent # b2_nullNode
         THEN \* Adjust ancestor bounds.
              FixUpward(UnlinkLeaf(T, leaf), grandParent)
         ELSE LET T1 == [T EXCEPT !.root = sibling,
                                  !.nodes[sibling].parent = b2_nullNode]
              IN FreeNode(T1, parent)

\* Fatten that extends the upper bound only.
Fatten_UpperOnly(aabb) ==
    [lowerBound |-> aabb.lowerBound,
     upperBound |-> Vec(aabb.upperBound.x + b2_aabbExtension,
                        aabb.upperBound.y + b2_aabbExtension)]

\* ------------------------------------------------- tree proxy operations
\* aabb inflated by b2_aabbExtension on every side.
Fatten(aabb) ==
    [lowerBound |-> Vec(aabb.lowerBound.x - b2_aabbExtension,
                        aabb.lowerBound.y - b2_aabbExtension),
     upperBound |-> Vec(aabb.upperBound.x + b2_aabbExtension,
                        aabb.upperBound.y + b2_aabbExtension)]

\* NewLeaf that does not store the userData.
NewLeaf_NoUserData(T, aabb, userData) ==
    LET Place(a) ==
            LET proxyId == a.id
            IN [T |-> [a.T EXCEPT !.nodes[proxyId].aabb = Fatten(aabb),
                                  !.nodes[proxyId].height = 0,
                                  !.nodes[proxyId].moved = TRUE],
                id |-> proxyId]
    IN Place(AllocateNode(T))

\* CreateProxy up to InsertLeaf: a node is allocated and made the leaf of
\* the proxy. The tree afterwards and the node.
NewLeaf(T, aabb, userData) ==
    LET Place(a) ==
            LET proxyId == a.id
            IN [T |-> [a.T EXCEPT !.nodes[proxyId].aabb = Fatten(aabb),
                                  !.nodes[proxyId].userData = userData,
                                  !.nodes[proxyId].height = 0,
                                  !.nodes[proxyId].moved = TRUE],
                id |-> proxyId]
    IN Place(AllocateNode(T))

\* b2DynamicTree::CreateProxy: the tree afterwards and the proxy id returned.
Tree_CreateProxy(T, aabb, userData) ==
    LET Insert(p) == [T |-> InsertLeaf(p.T, p.id), id |-> p.id]
    IN Insert(NewLeaf(T, aabb, userData))

\* b2DynamicTree::DestroyProxy
Tree_DestroyProxy(T, proxyId) == FreeNode(RemoveLeaf(T, proxyId), proxyId)

\* Faulty variant of PredictedFatAABB: the prediction is added on the upper
\* side whatever the sign of the displacement.
PredictedFatAABB_Unsigned(aabb, displacement) ==
    LET fat == Fatten(aabb)
    IN [lowerBound |-> fat.lowerBound,
        upperBound |-> Vec(fat.upperBound.x + b2_aabbMultiplier * displacement.x,
                           fat.upperBound.y + b2_aabbMultiplier * displacement.y)]

\* The fat AABB MoveProxy computes: aabb inflated by the extension, then
\* extended by b2_aabbMultiplier * displacement on the side it points to.
PredictedFatAABB(aabb, displacement) ==
    LET fat == Fatten(aabb)
        d == Vec(b2_aabbMultiplier * displacement.x, b2_aabbMultiplier * displacement.y)
    IN [lowerBound |-> Vec(IF d.x < 0 THEN fat.lowerBound.x + d.x ELSE fat.lowerBound.x,
                           IF d.y < 0 THEN fat.lowerBound.y + d.y ELSE fat.lowerBound.y),
        upperBound |-> Vec(IF d.x < 0 THEN fat.upperBound.x ELSE fat.upperBound.x + d.x,
                           IF d.y < 0 THEN fat.upperBound.y ELSE fat.upperBound.y + d.y)]

\* hugeAABB of MoveProxy: fatAABB grown by 4 * extension on every side.
HugeAABB(fatAABB) ==
    [lowerBound |-> Vec(fatAABB.lowerBound.x - 4 * b2_aabbExtension,
                        fatAABB.lowerBound.y - 4 * b2_aabbExtension),
     upperBound |-> Vec(fatAABB.upperBound.x + 4 * b2_aabbExtension,
                        fatAABB.upperBound.y + 4 * b2_aabbExtension)]

\* Faulty variants of NoTreeUpdateNeeded.
\* The size test negated: the tree AABB must NOT fit in the huge AABB.
NoTreeUpdateNeeded_NotHuge(treeAABB, aabb, fatAABB) ==
    Contains(treeAABB, aabb) /\ ~Contains(HugeAABB(fatAABB), treeAABB)

\* The tree AABB must contain the new fat AABB, not just the object.
NoTreeUpdateNeeded_FatInside(treeAABB, aabb, fatAABB) ==
    Contains(treeAABB, fatAABB) /\ Contains(HugeAABB(fatAABB), treeAABB)

\* The containment test with its operands exchanged.
NoTreeUpdateNeeded_Swapped(treeAABB, aabb, fatAABB) ==
    Contains(aabb, treeAABB) /\ Contains(HugeAABB(fatAABB), treeAABB)

\* The test that the tree AABB contains the object is left out.
NoTreeUpdateNeeded_HugeOnly(treeAABB, aabb, fatAABB) ==
    Contains(HugeAABB(fatAABB), treeAABB)

\* The early return of MoveProxy: the tree AABB still contains the object
\* and is not too large.
NoTreeUpdateNeeded(treeAABB, aabb, fatAABB) ==
    Contains(treeAABB, aabb) /\ Contains(HugeAABB(fatAABB), treeAABB)

\* Faulty variant of Tree_MoveProxy: the early return flags the leaf as moved.
Tree_MoveProxy_FlagsAlways(T, proxyId, aabb, displacement) ==
    LET fatAABB == PredictedFatAABB(aabb, displacement)
        treeAABB == T.nodes[proxyId].aabb
    IN IF NoTreeUpdateNeeded(treeAABB, aabb, fatAABB)
       THEN [T |-> [T EXCEPT !.nodes[proxyId].moved = TRUE], ret |-> FALSE]
       ELSE LET T1 == RemoveLeaf(T, proxyId)
                T2 == [T1 EXCEPT !.nodes[proxyId].aabb = fatAABB]
                T3 == InsertLeaf(T2, proxyId)
            IN [T |-> [T3 EXCEPT !.nodes[proxyId].moved = TRUE], ret |-> TRUE]

\* b2DynamicTree::MoveProxy: the tree afterwards and the value returned.
Tree_MoveProxy(T, proxyId, aabb, displacement) ==
    LET fatAABB == PredictedFatAABB(aabb, displacement)
        treeAABB == T.nodes[proxyId].aabb
    IN IF NoTreeUpdateNeeded(treeAABB, aabb, fatAABB)
       THEN [T |-> T, ret |-> FALSE]
       ELSE LET T1 == RemoveLeaf(T, proxyId)
                T2 == [T1 EXCEPT !.nodes[proxyId].aabb = fatAABB]
                T3 == InsertLeaf(T2, proxyId)
            IN [T |-> [T3 EXCEPT !.nodes[proxyId].moved = TRUE], ret |-> TRUE]

GetFatAABB(T, proxyId) == T.nodes[proxyId].aabb
GetUserData(T, proxyId) == T.nodes[proxyId].userData
WasMoved(T, proxyId) == T.nodes[proxyId].moved
ClearMoved(T, proxyId) == [T EXCEPT !.nodes[proxyId].moved = FALSE]

\* b2DynamicTree::Query with a callback that always continues: the leaves
\* the callback is invoked for, in order. The stack holds node ids, its top
\* is the last element.
RECURSIVE QueryVisit(_, _, _, _)
QueryVisit(T, aabb, stack, hits) ==
    IF stack = <<>> THEN hits
    ELSE
      LET nodeId == stack[Len(stack)]
          rest == SubSeq(stack, 1, Len(stack) - 1)
      IN IF nodeId = b2_nullNode THEN QueryVisit(T, aabb, rest, hits)
         ELSE IF b2TestOverlap(T.nodes[nodeId].aabb, aabb)
              THEN IF IsLeaf(T.nodes[nodeId])
                   THEN QueryVisit(T, aabb, rest, Append(hits, nodeId))
                   ELSE QueryVisit(T, aabb,
                                   rest \o <<T.nodes[nodeId].child1, T.nodes[nodeId].child2>>,
                                   hits)
              ELSE QueryVisit(T, aabb, rest, hits)

Query(T, aabb) == QueryVisit(T, aabb, <<T.root>>, <<>>)

\* ---------------------------------------------------------------- RayCast
\* Fractions along a ray are counted in units of 1/FractionUnit, and the rays
\* cast have p2 - p1 a multiple of FractionUnit in each coordinate, so that
\* p1 + maxFraction * (p2 - p1) is a whole number of length units.
FractionUnit == 1000

b2Abs(a) == IF a < 0 THEN -a ELSE a

\* n / d for d # 0
Quot(n, d) == IF d < 0 THEN (-n) \div (-d) ELSE n \div d

RayCastInput(p1, p2, maxFraction) == [p1 |-> p1, p2 |-> p2, maxFraction |-> maxFraction]

\* The bounding box of the segment from p1 to p1 + maxFraction * (p2 - p1)
SegmentAABB(p1, p2, maxFraction) ==
    LET t == Vec(p1.x + Quot(maxFraction * (p2.x - p1.x), FractionUnit),
                 p1.y + Quot(maxFraction * (p2.y - p1.y), FractionUnit))
    IN [lowerBound |-> Vec(b2Min(p1.x, t.x), b2Min(p1.y, t.y)),
        upperBound |-> Vec(b2Max(p1.x, t.x), b2Max(p1.y, t.y))]

\* The separating-axis test of the ray's line against a box, with the ray's
\* normal v = perp(p2 - p1): |dot(v, p1 - c)| - dot(|v|, h), c the centre and
\* h the half extents. The value is scaled by 2 |p2 - p1|, which keeps its sign.
Separation(aabb, p1, p2) ==
    LET v == Vec(-(p2.y - p1.y), p2.x - p1.x)
        c2 == Vec(aabb.lowerBound.x + aabb.upperBound.x,
                  aabb.lowerBound.y + aabb.upperBound.y)
        h2 == Vec(aabb.upperBound.x - aabb.lowerBound.x,
                  aabb.upperBound.y - aabb.lowerBound.y)
    IN b2Abs(v.x * (2 * p1.x - c2.x) + v.y * (2 * p1.y - c2.y))
         - (b2Abs(v.x) * h2.x + b2Abs(v.y) * h2.y)

\* b2AABB::RayCast: the fraction at which the ray enters the box, or -1 when
\* it does not within input.maxFraction (a ray that starts inside the box
\* does not enter it). One slab per axis.
Slab(lower, upper, p, d) ==
    IF d = 0
    THEN [miss |-> p < lower \/ upper < p, tmin |-> -1, tmax |-> FractionUnit + 1,
          parallel |-> TRUE]
    ELSE LET t1 == Quot((lower - p) * FractionUnit, d)
             t2 == Quot((upper - p) * FractionUnit, d)
         IN [miss |-> FALSE, tmin |-> b2Min(t1, t2), tmax |-> b2Max(t1, t2),
             parallel |-> FALSE]

AABB_RayCast(aabb, input) ==
    LET sx == Slab(aabb.lowerBound.x, aabb.upperBound.x, input.p1.x,
                   input.p2.x - input.p1.x)
        sy == Slab(aabb.lowerBound.y, aabb.upperBound.y, input.p1.y,
                   input.p2.y - input.p1.y)
        tmin == IF sx.parallel THEN sy.tmin
                ELSE IF sy.parallel THEN sx.tmin ELSE b2Max(sx.tmin, sy.tmin)
        tmax == b2Min(sx.tmax, sy.tmax)
    IN IF sx.miss \/ sy.miss THEN -1
       ELSE IF tmin > tmax THEN -1
       ELSE IF tmin < 0 \/ input.maxFraction < tmin THEN -1
       ELSE tmin

\* The callbacks a caller passes to RayCast, by what their RayCastCallback
\* returns: "clip" the fraction at which the ray enters the proxy's fat AABB
\* (negative when it does not), "ignore" always a negative value, "stop" 0.
RayCastCallbacks == {"clip", "ignore", "stop"}

RayCastCallback(T, callback, subInput, proxyId) ==
    IF callback = "clip" THEN AABB_RayCast(T.nodes[proxyId].aabb, subInput)
    ELSE IF callback = "stop" THEN 0
    ELSE -1

\* RayCast pushes both children of an internal node; which of the two comes
\* to lie on top of the stack is not laid down, and both orders are modelled.
PushOrders == {"child1, child2", "child2, child1"}
PushChildren(node, order) ==
    IF order = "child1, child2" THEN <<node.child1, node.child2>>
    ELSE <<node.child2, node.child1>>

\* b2DynamicTree::RayCast: the callback's invocations in order, each with the
\* proxy id, the sub-input passed and the value returned. The stack holds
\* node ids, its top is the last element; order is the order of the pushes.
RECURSIVE RayCastVisit(_, _, _, _, _, _, _)
RayCastVisit(T, callback, input, order, maxFraction, stack, calls) ==
    IF stack = <<>> THEN calls
    ELSE
      LET nodeId == stack[Len(stack)]
          rest == SubSeq(stack, 1, Len(stack) - 1)
          Invoke(value) ==
              LET made == Append(calls, [proxyId |-> nodeId,
                                         maxFraction |-> maxFraction,
                                         value |-> value])
              IN IF value = 0 THEN made
                 ELSE RayCastVisit(T, callback, input, order,
                                   IF value > 0 THEN value ELSE maxFraction,
                                   rest, made)
      IN IF nodeId = b2_nullNode
         THEN RayCastVisit(T, callback, input, order, maxFraction, rest, calls)
         ELSE IF ~b2TestOverlap(T.nodes[nodeId].aabb,
                                SegmentAABB(input.p1, input.p2, maxFraction))
         THEN RayCastVisit(T, callback, input, order, maxFraction, rest, calls)
         ELSE IF Separation(T.nodes[nodeId].aabb, input.p1, input.p2) > 0
         THEN RayCastVisit(T, callback, input, order, maxFraction, rest, calls)
         ELSE IF IsLeaf(T.nodes[nodeId])
         THEN Invoke(RayCastCallback(T, callback,
                                     RayCastInput(input.p1, input.p2, maxFraction),
                                     nodeId))
         ELSE RayCastVisit(T, callback, input, order, maxFraction,
                           rest \o PushChildren(T.nodes[nodeId], order),
                           calls)

Tree_RayCast(T, callback, input, order) ==
    RayCastVisit(T, callback, input, order, input.maxFraction, <<T.root>>, <<>>)

\* A RayCast that casts the whole ray whatever input.maxFraction is.
BroadPhase_RayCast_WholeRay(T, callback, input, order) ==
    Tree_RayCast(T, callback, [input EXCEPT !.maxFraction = FractionUnit], order)

\* A RayCast that casts the ray from p2 to p1.
BroadPhase_RayCast_Reversed(T, callback, input, order) ==
    Tree_RayCast(T, callback, [input EXCEPT !.p1 = input.p2, !.p2 = input.p1],
                 order)

\* b2BroadPhase::RayCast
BroadPhase_RayCast(T, callback, input, order) ==
    Tree_RayCast(T, callback, input, order)

\* ------------------------------------------ proxy operations, assertions on
\* The two assertions at the head of DestroyProxy and of MoveProxy.
ValidProxyArgument(T, proxyId) ==
    /\ 0 <= proxyId
    /\ proxyId < T.nodeCapacity
    /\ IsLeaf(T.nodes[proxyId])

\* The two assertions at the head of FreeNode.
FreeNodeAsserts(T, nodeId) ==
    /\ 0 <= nodeId
    /\ nodeId < T.nodeCapacity
    /\ 0 < T.nodeCount

\* Node id is a slot of the pool.
InPool(T, id) == 0 <= id /\ id < T.nodeCapacity

\* What the tree's members hold after an access outside the pool: nothing
\* the program determines.
UndefinedTree ==
    [nodes |-> Indeterminate, root |-> Indeterminate, freeList |-> Indeterminate,
     nodeCount |-> Indeterminate, nodeCapacity |-> Indeterminate]

\* How a call on the tree ends, assertions compiled in: "done" at its end,
\* "b2Assert" at an assertion that failed, "undefined" at a read or write of
\* m_nodes outside the pool, "no return" in a loop that came back to a state
\* it was in. T is the tree at that point; after an access outside the pool
\* it is not determined.
Outcome(T, status) ==
    [T |-> IF status = "undefined" THEN UndefinedTree ELSE T, status |-> status]

\* b2DynamicTree::Balance with its assertions, iA a slot of the pool: the
\* tree, the index returned and how the call ends.
BalanceAsserting(T, iA) ==
    LET A == T.nodes[iA]
        iB == A.child1
        iC == A.child2
        Result(S, id, status) ==
            [T |-> Outcome(S, status).T, id |-> id, status |-> status]
        Rotated(r) == Result(r.T, r.id, "done")
        \* The rotation that brings iUp, child1 of A or child2, up.
        Up(iUp) ==
            LET Swapped == [T EXCEPT !.nodes[iUp].child1 = iA,
                                     !.nodes[iUp].parent = T.nodes[iA].parent,
                                     !.nodes[iA].parent = iUp]
                parent == Swapped.nodes[iUp].parent
                Rotate == IF iUp = iC THEN Rotated(RotateCUp(T, iA, iB, iC))
                          ELSE Rotated(RotateBUp(T, iA, iB, iC))
            IN IF ~(InPool(T, T.nodes[iUp].child1) /\ InPool(T, T.nodes[iUp].child2))
               THEN Result(T, iA, "b2Assert")
               ELSE IF parent = b2_nullNode THEN Rotate
               ELSE IF ~InPool(T, parent) THEN Result(Swapped, iA, "undefined")
               ELSE IF Swapped.nodes[parent].child1 # iA
                       /\ Swapped.nodes[parent].child2 # iA
               THEN Result(Swapped, iA, "b2Assert")
               ELSE Rotate
        Choose(balance) ==
            IF balance > 1 THEN Up(iC)
            ELSE IF balance < -1 THEN Up(iB)
            ELSE Result(T, iA, "done")
    IN IF IsLeaf(A) \/ A.height < 2 THEN Result(T, iA, "done")
       ELSE IF ~(InPool(T, iB) /\ InPool(T, iC)) THEN Result(T, iA, "b2Assert")
       ELSE Choose(T.nodes[iC].height - T.nodes[iB].height)

\* The upward walk of InsertLeaf (childAsserts) and of RemoveLeaf (no
\* assertion on the children) from index, with the accesses checked. The walk
\* is a function of index and the tree: seen holds the pairs it started a
\* round with, and a round that starts with one of them is the first of a
\* loop without end.
RECURSIVE WalkAsserting(_, _, _, _)
WalkAsserting(T, index, childAsserts, seen) ==
    IF index = b2_nullNode THEN Outcome(T, "done")
    ELSE IF ~InPool(T, index) THEN Outcome(T, "undefined")
    ELSE IF [index |-> index, T |-> T] \in seen THEN Outcome(T, "no return")
    ELSE
      LET Up(w) == WalkAsserting(w.T, w.T.nodes[w.id].parent, childAsserts,
                                 seen \cup {[index |-> index, T |-> T]})
          Refit(b) ==
              LET child1 == b.T.nodes[b.id].child1
                  child2 == b.T.nodes[b.id].child2
              IN IF b.status # "done" THEN Outcome(b.T, b.status)
                 ELSE IF childAsserts
                         /\ (child1 = b2_nullNode \/ child2 = b2_nullNode)
                 THEN Outcome(b.T, "b2Assert")
                 ELSE IF ~(InPool(b.T, child1) /\ InPool(b.T, child2))
                 THEN Outcome(b.T, "undefined")
                 ELSE Up(WalkStep(T, index))
      IN Refit(BalanceAsserting(T, index))

\* RemoveLeaf with the assertions of FreeNode and the accesses checked.
RemoveLeafAsserting(T, leaf) ==
    IF leaf = T.root THEN Outcome([T EXCEPT !.root = b2_nullNode], "done")
    ELSE IF ~InPool(T, T.nodes[leaf].parent) THEN Outcome(T, "undefined")
    ELSE
      LET parent == T.nodes[leaf].parent
          grandParent == T.nodes[parent].parent
          sibling == IF T.nodes[parent].child1 = leaf
                     THEN T.nodes[parent].child2
                     ELSE T.nodes[parent].child1
          Free(S) == IF FreeNodeAsserts(S, parent)
                     THEN Outcome(FreeNode(S, parent), "done")
                     ELSE Outcome(S, "b2Assert")
          Walk(r) == IF r.status # "done" THEN r
                     ELSE WalkAsserting(r.T, grandParent, FALSE, {})
      IN IF grandParent # b2_nullNode
         THEN IF ~(InPool(T, grandParent) /\ InPool(T, sibling))
              THEN Outcome(T, "undefined")
              ELSE Walk(Free(ConnectSibling(T, leaf)))
         ELSE IF ~InPool(T, sibling) THEN Outcome(T, "undefined")
              ELSE Free([T EXCEPT !.root = sibling,
                                  !.nodes[sibling].parent = b2_nullNode])

\* b2DynamicTree::DestroyProxy with its assertions and those of FreeNode.
DestroyProxyAsserting(T, proxyId) ==
    IF ~ValidProxyArgument(T, proxyId) THEN Outcome(T, "b2Assert")
    ELSE
      LET Free(r) == IF r.status # "done" THEN r
                     ELSE IF FreeNodeAsserts(r.T, proxyId)
                     THEN Outcome(FreeNode(r.T, proxyId), "done")
                     ELSE Outcome(r.T, "b2Assert")
      IN Free(RemoveLeafAsserting(T, proxyId))

\* AllocateNode with the assertion of its growth branch and the read of the
\* free list's head checked: how the call ends.
AllocateNodeStatus(T) ==
    IF T.freeList = b2_nullNode
    THEN IF T.nodeCount = T.nodeCapacity THEN "done" ELSE "b2Assert"
    ELSE IF InPool(T, T.freeList) THEN "done" ELSE "undefined"

\* The sibling descent of InsertLeaf from index down, with the reads checked:
\* the sibling and how the descent ends. Nothing is written on the way, so a
\* descent that comes to a node of seen, those it went through, has no end.
RECURSIVE FindSiblingAsserting(_, _, _, _)
FindSiblingAsserting(T, leafAABB, index, seen) ==
    IF ~InPool(T, index) THEN [id |-> index, status |-> "undefined"]
    ELSE IF index \in seen THEN [id |-> index, status |-> "no return"]
    ELSE IF IsLeaf(T.nodes[index]) THEN [id |-> index, status |-> "done"]
    ELSE IF ~(InPool(T, T.nodes[index].child1) /\ InPool(T, T.nodes[index].child2))
    THEN [id |-> index, status |-> "undefined"]
    ELSE
      LET Go(d) == IF d.stop THEN [id |-> index, status |-> "done"]
                   ELSE FindSiblingAsserting(T, leafAABB, d.child,
                                             seen \cup {index})
      IN Go(Descend(T, leafAABB, index))

\* InsertLeaf with its assertions, those of AllocateNode and of Balance, and
\* the accesses checked.
InsertLeafAsserting(T, leaf) ==
    IF T.root = b2_nullNode
    THEN Outcome([T EXCEPT !.root = leaf, !.nodes[leaf].parent = b2_nullNode],
                 "done")
    ELSE
      LET Walk(S) == WalkAsserting(S, S.nodes[leaf].parent, TRUE, {})
          Attach(s) ==
              IF s.status # "done" THEN Outcome(T, s.status)
              ELSE IF AllocateNodeStatus(T) # "done"
              THEN Outcome(T, AllocateNodeStatus(T))
              ELSE IF T.nodes[s.id].parent # b2_nullNode
                      /\ ~InPool(T, T.nodes[s.id].parent)
              THEN Outcome(T, "undefined")
              ELSE Walk(AttachLeaf(T, leaf, s.id))
      IN Attach(FindSiblingAsserting(T, T.nodes[leaf].aabb, T.root, {}))

\* b2DynamicTree::MoveProxy with its assertions and those of the calls it
\* makes: the tree, the value returned (FALSE where an assertion stopped the
\* call) and how the call ends.
MoveProxyAsserting(T, proxyId, aabb, displacement) ==
    LET fatAABB == PredictedFatAABB(aabb, displacement)
        Result(S, ret, status) ==
            [T |-> Outcome(S, status).T,
             ret |-> IF status = "undefined" THEN Indeterminate ELSE ret,
             status |-> status]
        Flag(r) == IF r.status # "done" THEN Result(r.T, FALSE, r.status)
                   ELSE Result([r.T EXCEPT !.nodes[proxyId].moved = TRUE], TRUE,
                               "done")
        Insert(r) ==
            IF r.status # "done" THEN Result(r.T, FALSE, r.status)
            ELSE Flag(InsertLeafAsserting(
                          [r.T EXCEPT !.nodes[proxyId].aabb = fatAABB], proxyId))
    IN IF ~ValidProxyArgument(T, proxyId) THEN Result(T, FALSE, "b2Assert")
       ELSE IF NoTreeUpdateNeeded(T.nodes[proxyId].aabb, aabb, fatAABB)
       THEN Result(T, FALSE, "done")
       ELSE Insert(RemoveLeafAsserting(T, proxyId))

\* b2DynamicTree::GetHeight
GetHeight(T) == IF T.root = b2_nullNode THEN 0 ELSE T.nodes[T.root].height

\* What a read of a node outside the pool can make of ComputeHeight: the
\* b2Assert on nodeId stops the program, or (assertions compiled out) the
\* memory next to the pool is taken for a node: the call does not return, or
\* it returns a value that nothing in the program determines. The field
\* defined tells whether height is a value the code computed from the pool.
OutOfPoolHeights ==
    {[completes |-> c, defined |-> FALSE, height |-> Indeterminate] :
        c \in BOOLEAN}

\* b2DynamicTree::ComputeHeight(nodeId): the possible outcomes.
RECURSIVE ComputeHeightOf(_, _)
ComputeHeightOf(T, nodeId) ==
    IF ~(0 <= nodeId /\ nodeId < T.nodeCapacity) THEN OutOfPoolHeights
    ELSE IF IsLeaf(T.nodes[nodeId])
    THEN {[completes |-> TRUE, defined |-> TRUE, height |-> 0]}
    ELSE {[completes |-> o1.completes /\ o2.completes,
           defined |-> o1.defined /\ o2.defined,
           height |-> IF o1.defined /\ o2.defined
                      THEN 1 + b2Max(o1.height, o2.height)
                      ELSE Indeterminate] :
             o1 \in ComputeHeightOf(T, T.nodes[nodeId].child1),
             o2 \in ComputeHeightOf(T, T.nodes[nodeId].child2)}

\* b2DynamicTree::ComputeHeight()
ComputeHeight(T) == ComputeHeightOf(T, T.root)

\* --------------------------------------------------------- broad-phase
\* M is the move buffer record [moveBuffer, moveCount, moveCapacity].
\* A BufferMove that grows the buffer one entry too late.
BufferMove_GrowsLate(M, proxyId) ==
    LET M1 == IF M.moveCount > M.moveCapacity
              THEN [M EXCEPT !.moveCapacity = 2 * M.moveCapacity]
              ELSE M
    IN [M1 EXCEPT !.moveBuffer = Append(M1.moveBuffer, proxyId),
                  !.moveCount = M1.moveCount + 1]

\* b2BroadPhase::BufferMove
BufferMove(M, proxyId) ==
    LET M1 == IF M.moveCount = M.moveCapacity
              THEN [M EXCEPT !.moveCapacity = 2 * M.moveCapacity]
              ELSE M
    IN [M1 EXCEPT !.moveBuffer = Append(M1.moveBuffer, proxyId),
                  !.moveCount = M1.moveCount + 1]

\* UnBufferMove that stops at the first occurrence.
UnBufferMove_FirstOnly(M, proxyId) ==
    [M EXCEPT !.moveBuffer =
        [i \in 1 .. M.moveCount |->
            IF M.moveBuffer[i] = proxyId
               /\ \A j \in 1 .. i - 1 : M.moveBuffer[j] # proxyId
            THEN e_nullProxy ELSE M.moveBuffer[i]]]

\* b2BroadPhase::UnBufferMove
UnBufferMove(M, proxyId) ==
    [M EXCEPT !.moveBuffer =
        [i \in 1 .. M.moveCount |->
            IF M.moveBuffer[i] = proxyId THEN e_nullProxy ELSE M.moveBuffer[i]]]

\* Faulty variants of SkipPair.
\* Only the proxy itself is dropped: no de-duplication of moved pairs.
SkipPair_NoDedup(T, queryProxyId, proxyId) ==
    proxyId = queryProxyId

\* The test for the query proxy itself is left out.
SkipPair_NoSelfTest(T, queryProxyId, proxyId) ==
    WasMoved(T, proxyId) /\ proxyId > queryProxyId

\* Every moved proxy is dropped, whatever its id.
SkipPair_AnyMoved(T, queryProxyId, proxyId) ==
    \/ proxyId = queryProxyId
    \/ T.nodes[proxyId].moved

\* Every proxy with the larger id is dropped, moved or not.
SkipPair_IgnoreMoved(T, queryProxyId, proxyId) ==
    \/ proxyId = queryProxyId
    \/ proxyId > queryProxyId

\* P is the pair buffer record [pairBuffer, pairCount, pairCapacity].
\* The test of QueryCallback that drops a hit: the proxy itself, or a moved
\* proxy with the larger id.
SkipPair(T, queryProxyId, proxyId) ==
    \/ proxyId = queryProxyId
    \/ WasMoved(T, proxyId) /\ proxyId > queryProxyId

\* Faulty variant of QueryCallback: the pair is stored as (query proxy, hit)
\* instead of (min, max).
QueryCallback_Unordered(P, T, queryProxyId, proxyId) ==
    IF proxyId = queryProxyId \/ (T.nodes[proxyId].moved /\ proxyId > queryProxyId) THEN P
    ELSE [P EXCEPT !.pairBuffer =
                       Append(P.pairBuffer,
                              [proxyIdA |-> queryProxyId, proxyIdB |-> proxyId]),
                   !.pairCount = P.pairCount + 1]

\* b2BroadPhase::QueryCallback (it always returns true)
QueryCallback(P, T, queryProxyId, proxyId) ==
    IF SkipPair(T, queryProxyId, proxyId) THEN P
    ELSE
      LET P1 == IF P.pairCount = P.pairCapacity
                THEN [P EXCEPT !.pairCapacity = P.pairCapacity + (P.pairCapacity \div 2)]
                ELSE P
      IN [P1 EXCEPT !.pairBuffer =
                        Append(P1.pairBuffer,
                               [proxyIdA |-> b2Min(proxyId, queryProxyId),
                                proxyIdB |-> b2Max(proxyId, queryProxyId)]),
                    !.pairCount = P1.pairCount + 1]

\* The callbacks of one tree query, applied to the hits from index i on.
RECURSIVE QueryCallbacks(_, _, _, _, _)
QueryCallbacks(P, T, queryProxyId, hits, i) ==
    IF i > Len(hits) THEN P
    ELSE QueryCallbacks(QueryCallback(P, T, queryProxyId, hits[i]),
                        T, queryProxyId, hits, i + 1)

\* Faulty variant of GatherPairs: the query covers the whole tree instead of
\* the proxy's fat AABB.
RECURSIVE GatherPairs_QueryAll(_, _, _, _)
GatherPairs_QueryAll(P, T, moveBuffer, i) ==
    IF i > Len(moveBuffer) THEN P
    ELSE
      LET queryProxyId == moveBuffer[i]
      IN IF queryProxyId = e_nullProxy THEN GatherPairs_QueryAll(P, T, moveBuffer, i + 1)
         ELSE GatherPairs_QueryAll(
                QueryCallbacks(P, T, queryProxyId,
                               Query(T, T.nodes[T.root].aabb), 1),
                T, moveBuffer, i + 1)

\* First loop of UpdatePairs: a tree query for every move buffer entry from
\* index i on.
RECURSIVE GatherPairs(_, _, _, _)
GatherPairs(P, T, moveBuffer, i) ==
    IF i > Len(moveBuffer) THEN P
    ELSE
      LET queryProxyId == moveBuffer[i]
      IN IF queryProxyId = e_nullProxy THEN GatherPairs(P, T, moveBuffer, i + 1)
         ELSE GatherPairs(
                QueryCallbacks(P, T, queryProxyId,
                               Query(T, GetFatAABB(T, queryProxyId)), 1),
                T, moveBuffer, i + 1)

\* Second loop of UpdatePairs: the AddPair calls, in order.
SendPairs(P, T) ==
    [i \in 1 .. P.pairCount |->
        [userDataA |-> GetUserData(T, P.pairBuffer[i].proxyIdA),
         userDataB |-> GetUserData(T, P.pairBuffer[i].proxyIdB)]]

\* Faulty variant of ClearMoveFlags: no flag is cleared.
ClearMoveFlags_Keep(T, moveBuffer, i) == T

\* Faulty variant of ClearMoveFlags: the loop ends at the first null entry
\* instead of skipping it.
RECURSIVE ClearMoveFlags_StopAtNull(_, _, _)
ClearMoveFlags_StopAtNull(T, moveBuffer, i) ==
    IF i > Len(moveBuffer) THEN T
    ELSE IF moveBuffer[i] = e_nullProxy THEN T
    ELSE ClearMoveFlags_StopAtNull(ClearMoved(T, moveBuffer[i]), moveBuffer, i + 1)

\* Third loop of UpdatePairs: clear the moved flag of every buffered proxy.
RECURSIVE ClearMoveFlags(_, _, _)
ClearMoveFlags(T, moveBuffer, i) ==
    IF i > Len(moveBuffer) THEN T
    ELSE IF moveBuffer[i] = e_nullProxy THEN ClearMoveFlags(T, moveBuffer, i + 1)
    ELSE ClearMoveFlags(ClearMoved(T, moveBuffer[i]), moveBuffer, i + 1)

\* Faulty variant of ResetPairs: the pairs of the previous update are kept.
ResetPairs_Keep(P) == P

\* The pair buffer UpdatePairs starts from: m_pairCount = 0.
ResetPairs(P) == [P EXCEPT !.pairBuffer = <<>>, !.pairCount = 0]

\* ------------------------------------------------------ b2StackAllocator
\* Pointers: a place in m_data, or a block of the heap.
ArenaPtr(offset) == [heap |-> FALSE, at |-> offset]
HeapPtr(block) == [heap |-> TRUE, at |-> block]

\* b2StackAllocator::b2StackAllocator
NewStack ==
    [index |-> 0, allocation |-> 0, maxAllocation |-> 0, entries |-> <<>>,
     entryCount |-> 0]

\* The block b2Alloc returns: one that no entry holds. Blocks are numbered
\* and the lowest free number is taken, so that a freed block comes back.
FreshBlock(S) ==
    LET used == {S.entries[i].data.at : i \in {j \in 1 .. S.entryCount :
                                                  S.entries[j].usedMalloc}}
    IN HeapPtr(CHOOSE k \in 1 .. S.entryCount + 1 :
                  /\ k \notin used
                  /\ \A j \in 1 .. k - 1 : j \in used)

\* Faulty variants of Stack_Allocate.
\* The assertion on the number of entries is left out.
Stack_Allocate_NoCap(S, size) ==
    LET heap == S.index + size > b2_stackSize
        entry == [data |-> IF heap THEN FreshBlock(S) ELSE ArenaPtr(S.index),
                  size |-> size, usedMalloc |-> heap]
    IN [S |-> [S EXCEPT !.entries = Append(S.entries, entry),
                        !.index = IF heap THEN S.index ELSE S.index + size,
                        !.allocation = S.allocation + size,
                        !.maxAllocation = b2Max(S.maxAllocation, S.allocation + size),
                        !.entryCount = S.entryCount + 1],
        p |-> entry.data, failed |-> FALSE]

\* The high-water mark follows the arena only.
Stack_Allocate_ArenaPeak(S, size) ==
    IF ~(S.entryCount < b2_maxStackEntries)
    THEN [S |-> S, p |-> nullptr, failed |-> TRUE]
    ELSE
      LET heap == S.index + size > b2_stackSize
          entry == [data |-> IF heap THEN FreshBlock(S) ELSE ArenaPtr(S.index),
                    size |-> size, usedMalloc |-> heap]
          index == IF heap THEN S.index ELSE S.index + size
      IN [S |-> [S EXCEPT !.entries = Append(S.entries, entry),
                          !.index = index,
                          !.allocation = S.allocation + size,
                          !.maxAllocation = b2Max(S.maxAllocation, index),
                          !.entryCount = S.entryCount + 1],
          p |-> entry.data, failed |-> FALSE]

\* b2StackAllocator::Allocate, assertions compiled in: the allocator
\* afterwards, the pointer returned, and whether the assertion failed.
Stack_Allocate(S, size) ==
    IF ~(S.entryCount < b2_maxStackEntries)
    THEN [S |-> S, p |-> nullptr, failed |-> TRUE]
    ELSE
      LET heap == S.index + size > b2_stackSize
          entry == [data |-> IF heap THEN FreshBlock(S) ELSE ArenaPtr(S.index),
                    size |-> size, usedMalloc |-> heap]
      IN [S |-> [S EXCEPT !.entries = Append(S.entries, entry),
                          !.index = IF heap THEN S.index ELSE S.index + size,
                          !.allocation = S.allocation + size,
                          !.maxAllocation = b2Max(S.maxAllocation, S.allocation + size),
                          !.entryCount = S.entryCount + 1],
          p |-> entry.data, failed |-> FALSE]

\* Faulty variant of Stack_Free: m_allocation keeps the size of the entry.
Stack_Free_KeepsAllocation(S, p) ==
    IF ~(S.entryCount > 0) THEN [S |-> S, failed |-> TRUE]
    ELSE
      LET entry == S.entries[S.entryCount]
      IN IF p # entry.data THEN [S |-> S, failed |-> TRUE]
         ELSE [S |-> [S EXCEPT !.index = IF entry.usedMalloc THEN S.index
                                         ELSE S.index - entry.size,
                               !.entries = SubSeq(S.entries, 1, S.entryCount - 1),
                               !.entryCount = S.entryCount - 1],
               failed |-> FALSE]

\* Faulty variant of Stack_Free: m_index is rewound for heap entries too.
Stack_Free_AlwaysRewinds(S, p) ==
    IF ~(S.entryCount > 0) THEN [S |-> S, failed |-> TRUE]
    ELSE
      LET entry == S.entries[S.entryCount]
      IN IF p # entry.data THEN [S |-> S, failed |-> TRUE]
         ELSE [S |-> [S EXCEPT !.index = S.index - entry.size,
                               !.allocation = S.allocation - entry.size,
                               !.entries = SubSeq(S.entries, 1, S.entryCount - 1),
                               !.entryCount = S.entryCount - 1],
               failed |-> FALSE]

\* b2StackAllocator::Free, assertions compiled in.
Stack_Free(S, p) ==
    IF ~(S.entryCount > 0) THEN [S |-> S, failed |-> TRUE]
    ELSE
      LET entry == S.entries[S.entryCount]
      IN IF p # entry.data THEN [S |-> S, failed |-> TRUE]
         ELSE [S |-> [S EXCEPT !.index = IF entry.usedMalloc THEN S.index
                                         ELSE S.index - entry.size,
                               !.allocation = S.allocation - entry.size,
                               !.entries = SubSeq(S.entries, 1, S.entryCount - 1),
                               !.entryCount = S.entryCount - 1],
               failed |-> FALSE]

\* b2StackAllocator::GetMaxAllocation
Stack_GetMaxAllocation(S) == S.maxAllocation

\* ------------------------------------------------------- b2BlockAllocator
\* An allocator value B is the record of b2BlockAllocator's members with the
\* system heap it passes large sizes to: chunks (m_chunks[0 .. m_chunkCount-1],
\* each with the block size it was sliced into), freeLists (m_freeLists, each
\* list with its head first) and heap (the system heap's blocks in use).
\* A block is named by its chunk and its offset inside it.
ChunkPtr(chunk, offset) == [heap |-> FALSE, chunk |-> chunk, at |-> offset]
SystemPtr(block) == [heap |-> TRUE, chunk |-> -1, at |-> block]

\* The size classes, increasing up to b2_maxBlockSize
b2_blockSizes == <<16, 32, 64, 96, 128, 160, 192, 224, 256, 320, 384, 448, 512, 640>>

\* The smallest class that fits size, 0 < size <= b2_maxBlockSize
SizeClass(size) ==
    CHOOSE index \in 1 .. b2_blockSizeCount :
        /\ size <= b2_blockSizes[index]
        /\ \A j \in 1 .. index - 1 : b2_blockSizes[j] < size

NewBlockAllocator ==
    [chunks |-> <<>>, freeLists |-> [index \in 1 .. b2_blockSizeCount |-> <<>>],
     heap |-> {}]

\* The blocks a new chunk is sliced into, in address order
ChunkBlocks(chunk, blockSize) ==
    [k \in 1 .. b2_chunkSize \div blockSize |-> ChunkPtr(chunk, (k - 1) * blockSize)]

\* The system heap's allocation: a block that is not in use
SystemBlock(B) == CHOOSE n \in 0 .. Cardinality(B.heap) : n \notin B.heap

\* b2BlockAllocator::Allocate: the allocator after the call and the pointer
\* returned.
Block_Allocate(B, size) ==
    IF size > b2_maxBlockSize
    THEN [B |-> [B EXCEPT !.heap = @ \cup {SystemBlock(B)}],
          p |-> SystemPtr(SystemBlock(B))]
    ELSE LET index == SizeClass(size)
         IN IF B.freeLists[index] # <<>>
            THEN [B |-> [B EXCEPT !.freeLists[index] = Tail(@)],
                  p |-> Head(B.freeLists[index])]
            ELSE LET blocks == ChunkBlocks(Len(B.chunks), b2_blockSizes[index])
                 IN [B |-> [B EXCEPT !.chunks = Append(@, b2_blockSizes[index]),
                                     !.freeLists[index] = Tail(blocks)],
                     p |-> Head(blocks)]

\* A Free that puts the block at the far end of its class's list.
Block_Free_AtTail(B, p, size) ==
    IF size > b2_maxBlockSize THEN [B EXCEPT !.heap = @ \ {p.at}]
    ELSE [B EXCEPT !.freeLists[SizeClass(size)] = Append(@, p)]

\* b2BlockAllocator::Free
Block_Free(B, p, size) ==
    IF size > b2_maxBlockSize THEN [B EXCEPT !.heap = @ \ {p.at}]
    ELSE [B EXCEPT !.freeLists[SizeClass(size)] = <<p>> \o @]

\* ------------------------------------------------------------ ShiftOrigin
\* b2DynamicTree::ShiftOrigin: newOrigin is subtracted from both bounds of the
\* aabb of every slot of the pool, free slots included.
Tree_ShiftOrigin(T, newOrigin) ==
    LET Shifted(aabb) ==
            AABB(aabb.lowerBound.x - newOrigin.x, aabb.lowerBound.y - newOrigin.y,
                 aabb.upperBound.x - newOrigin.x, aabb.upperBound.y - newOrigin.y)
    IN [T EXCEPT !.nodes = [i \in 0 .. T.nodeCapacity - 1 |->
                              IF IsFresh(T.nodes[i]) THEN T.nodes[i]
                              ELSE [T.nodes[i] EXCEPT
                                      !.aabb = Shifted(T.nodes[i].aabb)]]]

\* -------------------------------------------------------- RebuildBottomUp
\* The first loop of b2DynamicTree::RebuildBottomUp from slot i on: free slots
\* are skipped, a leaf loses its parent and is appended to the array nodes, an
\* internal node is returned to the pool.
RECURSIVE CollectLeaves(_, _, _)
CollectLeaves(T, i, nodes) ==
    IF i >= T.nodeCapacity THEN [T |-> T, nodes |-> nodes]
    ELSE IF T.nodes[i].height < 0 THEN CollectLeaves(T, i + 1, nodes)
    ELSE IF IsLeaf(T.nodes[i])
    THEN CollectLeaves([T EXCEPT !.nodes[i].parent = b2_nullNode], i + 1,
                       Append(nodes, i))
    ELSE CollectLeaves(FreeNode(T, i), i + 1, nodes)

\* The pair (iMin, jMin) the search of RebuildBottomUp ends with: the loops go
\* through i < j in order and keep a pair only when its cost is strictly
\* smaller, so the first pair of least perimeter stays. Positions count from 1.
MinCostPair(T, nodes) ==
    LET count == Len(nodes)
        Cost(i, j) == GetPerimeter(Combine(T.nodes[nodes[i]].aabb,
                                           T.nodes[nodes[j]].aabb))
        Pairs == {p \in (1 .. count) \X (1 .. count) : p[1] < p[2]}
        Before(p, q) == p[1] < q[1] \/ (p[1] = q[1] /\ p[2] < q[2])
    IN CHOOSE p \in Pairs :
           \A q \in Pairs \ {p} :
               \/ Cost(p[1], p[2]) < Cost(q[1], q[2])
               \/ Cost(p[1], p[2]) = Cost(q[1], q[2]) /\ Before(p, q)

\* One round of the while loop of RebuildBottomUp after the search: a parent
\* is allocated for nodes[iMin] and nodes[jMin], the last entry of the array
\* moves to jMin, the parent to iMin, and the array gets one shorter. The pool
\* does not grow here: the internal nodes the first loop freed are taken again.
JoinPair(T, nodes, iMin, jMin) ==
    LET index1 == nodes[iMin]
        index2 == nodes[jMin]
        Link(a) ==
            [a.T EXCEPT !.nodes[a.id].child1 = index1,
                        !.nodes[a.id].child2 = index2,
                        !.nodes[a.id].height =
                            1 + b2Max(a.T.nodes[index1].height,
                                      a.T.nodes[index2].height),
                        !.nodes[a.id].aabb = Combine(a.T.nodes[index1].aabb,
                                                     a.T.nodes[index2].aabb),
                        !.nodes[a.id].parent = b2_nullNode,
                        !.nodes[index1].parent = a.id,
                        !.nodes[index2].parent = a.id]
        Shrink(a) ==
            [T |-> Link(a),
             nodes |-> SubSeq([[nodes EXCEPT ![jMin] = nodes[Len(nodes)]]
                                  EXCEPT ![iMin] = a.id], 1, Len(nodes) - 1)]
    IN Shrink(AllocateNode(T))

\* The while loop of RebuildBottomUp: pairs are joined until one node is left.
RECURSIVE JoinAll(_, _)
JoinAll(T, nodes) ==
    IF Len(nodes) <= 1 THEN [T |-> T, nodes |-> nodes]
    ELSE LET Next(p) == JoinPair(T, nodes, p[1], p[2])
             Rest(r) == JoinAll(r.T, r.nodes)
         IN Rest(Next(MinCostPair(T, nodes)))

\* b2DynamicTree::RebuildBottomUp. The array nodes is a b2Alloc block of
\* m_nodeCount ints and m_root is read from nodes[0] at the end. On a tree
\* without nodes the block has no bytes and nothing was stored in it: the read
\* gives a value that nothing in the program determines, and uninitialized
\* tells that this happened. Validate has no body unless b2DEBUG is defined.
Tree_RebuildBottomUp(T) ==
    LET Finish(r) ==
            [T |-> [r.T EXCEPT !.root = IF Len(r.nodes) = 0 THEN Indeterminate
                                        ELSE r.nodes[1]],
             uninitialized |-> Len(r.nodes) = 0]
        Join(c) == Finish(JoinAll(c.T, c.nodes))
    IN Join(CollectLeaves(T, 0, <<>>))

\* ---------------------------------------------------------------- state
VARIABLES
    m_nodes,          \* b2DynamicTree::m_nodes
    m_root,           \* b2DynamicTree::m_root
    m_freeList,       \* b2DynamicTree::m_freeList
    m_nodeCount,      \* b2DynamicTree::m_nodeCount
    m_nodeCapacity,   \* b2DynamicTree::m_nodeCapacity
    m_proxyCount,     \* b2BroadPhase::m_proxyCount
    m_moveBuffer,     \* b2BroadPhase::m_moveBuffer[0 .. m_moveCount-1]
    m_moveCapacity,   \* b2BroadPhase::m_moveCapacity
    m_moveCount,      \* b2BroadPhase::m_moveCount
    m_pairBuffer,     \* b2BroadPhase::m_pairBuffer[0 .. m_pairCount-1]
    m_pairCapacity,   \* b2BroadPhase::m_pairCapacity
    m_pairCount,      \* b2BroadPhase::m_pairCount
    m_queryProxyId,   \* b2BroadPhase::m_queryProxyId
    proxyIds,         \* the caller's ids: returned by CreateProxy, not yet destroyed
    addPairCalls,     \* the callback's record: AddPair calls of the latest operation
    lastOp,           \* the latest operation: its arguments and return value
    m_index,          \* b2StackAllocator::m_index
    m_allocation,     \* b2StackAllocator::m_allocation
    m_maxAllocation,  \* b2StackAllocator::m_maxAllocation
    m_entries,        \* b2StackAllocator::m_entries[0 .. m_entryCount-1]
    m_entryCount,     \* b2StackAllocator::m_entryCount
    stackPeak,        \* history: the largest total size of outstanding allocations
    stackOp,          \* the latest b2StackAllocator call: arguments and result
    m_chunks,         \* b2BlockAllocator::m_chunks[0 .. m_chunkCount-1]
    m_freeLists,      \* b2BlockAllocator::m_freeLists
    systemHeap,       \* the system heap's blocks handed to the b2BlockAllocator
    blockLive,        \* history: the block allocations not yet freed, oldest first
    blockOp,          \* the latest b2BlockAllocator call and the one before it
    rayCastOp         \* the latest operation's RayCast: its input and the callback's record

vars == <<m_nodes, m_root, m_freeList, m_nodeCount, m_nodeCapacity, m_proxyCount,
          m_moveBuffer, m_moveCapacity, m_moveCount, m_pairBuffer, m_pairCapacity,
          m_pairCount, m_queryProxyId, proxyIds, addPairCalls, lastOp,
          m_index, m_allocation, m_maxAllocation, m_entries, m_entryCount,
          stackPeak, stackOp, m_chunks, m_freeLists, systemHeap, blockLive, blockOp,
          rayCastOp>>

treeVars == <<m_nodes, m_root, m_freeList, m_nodeCount, m_nodeCapacity>>
moveVars == <<m_moveBuffer, m_moveCapacity, m_moveCount>>
pairVars == <<m_pairBuffer, m_pairCapacity, m_pairCount>>
broadPhaseVars == <<treeVars, moveVars, pairVars, m_proxyCount, m_queryProxyId,
                    proxyIds, addPairCalls, lastOp, rayCastOp>>
stackVars == <<m_index, m_allocation, m_maxAllocation, m_entries, m_entryCount,
               stackPeak, stackOp>>
blockVars == <<m_chunks, m_freeLists, systemHeap, blockLive, blockOp>>
allocatorVars == <<stackVars, blockVars>>

\* The b2BlockAllocator as a value
Blocks == [chunks |-> m_chunks, freeLists |-> m_freeLists, heap |-> systemHeap]

SetBlocks(B) ==
    /\ m_chunks' = B.chunks
    /\ m_freeLists' = B.freeLists
    /\ systemHeap' = B.heap

\* The b2StackAllocator as a value
Stack ==
    [index |-> m_index, allocation |-> m_allocation, maxAllocation |-> m_maxAllocation,
     entries |-> m_entries, entryCount |-> m_entryCount]

SetStack(S) ==
    /\ m_index' = S.index
    /\ m_allocation' = S.allocation
    /\ m_maxAllocation' = S.maxAllocation
    /\ m_entries' = S.entries
    /\ m_entryCount' = S.entryCount

\* m_tree as a tree value
Tree ==
    [nodes |-> m_nodes, root |-> m_root, freeList |-> m_freeList,
     nodeCount |-> m_nodeCount, nodeCapacity |-> m_nodeCapacity]

Moves == [moveBuffer |-> m_moveBuffer, moveCount |-> m_moveCount,
          moveCapacity |-> m_moveCapacity]

Pairs == [pairBuffer |-> m_pairBuffer, pairCount |-> m_pairCount,
          pairCapacity |-> m_pairCapacity]

SetTree(T) ==
    /\ m_nodes' = T.nodes
    /\ m_root' = T.root
    /\ m_freeList' = T.freeList
    /\ m_nodeCount' = T.nodeCount
    /\ m_nodeCapacity' = T.nodeCapacity

SetMoves(M) ==
    /\ m_moveBuffer' = M.moveBuffer
    /\ m_moveCount' = M.moveCount
    /\ m_moveCapacity' = M.moveCapacity

SetPairs(P) ==
    /\ m_pairBuffer' = P.pairBuffer
    /\ m_pairCount' = P.pairCount
    /\ m_pairCapacity' = P.pairCapacity

\* ---------------------------------------------------------------- inputs
BoxA == AABB(0, 0, 100, 100)
BoxB == AABB(50, 50, 150, 150)
BoxFar == AABB(1000, 1000, 1100, 1100)
BoxShift == AABB(1, 1, 101, 101)
BoxIn == AABB(-5, -5, 105, 105)
BoxOut == AABB(-15, -15, 105, 105)

NoAABB == AABB(0, 0, 0, 0)
NoVec == Vec(0, 0)

\* Spec (pair generation): overlapping and disjoint boxes, teleports
Boxes == {BoxA, BoxB, BoxFar}
Displacements == {Vec(0, 0)}
UserDatas == {"A", "B"}

\* SpecMove (MoveProxy): small shifts inside and outside the fat AABB,
\* zero, small and large displacements in both directions
MoveBoxes == {BoxA, BoxShift, BoxIn, BoxOut}
MoveDisplacements == {Vec(0, 0), Vec(1, 1), Vec(-25, 25)}
MoveUserDatas == {"A"}

\* SpecStep: the n-th proxy created carries the n-th handle
StepUserData == <<"A", "B", "C", "D">>

\* SpecS1: the boxes of scenarios S1 and S2 and their shifts
S1Boxes == {BoxA, BoxB, BoxFar, BoxShift, BoxIn, BoxOut}
S1UserDatas == {"A", "B", "C"}

\* SpecTree and SpecGrow: unit boxes in a row, 3 apart; the n-th insertion
\* creates a proxy in cell n mod 3 with the n-th handle; moves go to a cell
\* of TreeBoxes or GrowBoxes
Cell(k) == AABB(300 * k, 0, 300 * k + 100, 100)
TreeBoxes == {Cell(0), Cell(1), Cell(5)}
NthCell(n) == Cell(n % 3)
GrowBoxes == {Cell(0), Cell(5)}
TreeUserData == <<"A", "B", "C", "D", "E", "F", "G", "H", "I", "J", "K", "L">>

\* SpecStack: sizes that fit, that fill the arena exactly (40000 + 62400)
\* and that overflow to the heap; the size used beyond StackChoiceDepth
StackSizes == {0, 40000, 62400, 70000}
FillSize == 1024
StrayPtr == ArenaPtr(-1)

\* The record of a b2StackAllocator call: op is the call, or "b2Assert" when
\* an assertion stopped it.
StackCall(op, call, size, p) == [op |-> op, call |-> call, size |-> size, p |-> p]

\* The total size of the allocations in entries.
RECURSIVE Outstanding(_)
Outstanding(entries) ==
    IF entries = <<>> THEN 0
    ELSE entries[Len(entries)].size
           + Outstanding(SubSeq(entries, 1, Len(entries) - 1))

\* SpecRay: rays over the row of cells of TreeBoxes. Along the row from in
\* front of Cell(0), back along it from behind Cell(5), along it from inside
\* Cell(0), parallel to it and past every cell, across it through Cell(1), and
\* diagonally out of Cell(0); each cast whole, to its middle, or with
\* maxFraction 0.
Rays ==
    {<<Vec(-110, 50), Vec(1890, 50)>>, <<Vec(1890, 50), Vec(-110, 50)>>,
     <<Vec(50, 50), Vec(2050, 50)>>, <<Vec(-110, 500), Vec(1890, 500)>>,
     <<Vec(350, -190), Vec(350, 810)>>, <<Vec(50, 50), Vec(1050, 1050)>>}
MaxFractions == {0, FractionUnit \div 2, FractionUnit}
RayCastInputs ==
    {RayCastInput(ray[1], ray[2], f) : ray \in Rays, f \in MaxFractions}

\* SpecBlock: sizes of two classes (600 and 640 share the largest, 500 is of
\* the one below) and a size passed to the system heap.
BlockRequestSizes == {500, 600, b2_maxBlockSize, 700}

\* The record of a b2BlockAllocator call, with the call before it.
BlockCall(op, size, p) == [op |-> op, size |-> size, p |-> p]
BlockCalls(op, size, p, before) ==
    [op |-> op, size |-> size, p |-> p, prev |-> BlockCall(before.op, before.size, before.p)]

\* The record of a RayCast: its arguments and the RayCastCallback invocations.
RayCastRecord(callback, input, order, calls) ==
    [callback |-> callback, input |-> input, order |-> order, calls |-> calls]
NoRayCast == RayCastRecord("", RayCastInput(NoVec, NoVec, 0), "", <<>>)

Op(op, id, aabb, d, userData, ret) ==
    [op |-> op, id |-> id, aabb |-> aabb, d |-> d, userData |-> userData, ret |-> ret,
     moves |-> <<>>, moved |-> {}, prev |-> ""]

\* ----------------------------------------------------------------- Init
\* b2BroadPhase::b2BroadPhase with the embedded b2DynamicTree
Init ==
    /\ m_nodes = NewTree.nodes
    /\ m_root = NewTree.root
    /\ m_freeList = NewTree.freeList
    /\ m_nodeCount = NewTree.nodeCount
    /\ m_nodeCapacity = NewTree.nodeCapacity
    /\ m_proxyCount = 0
    /\ m_pairCapacity = InitialPairCapacity
    /\ m_pairCount = 0
    /\ m_pairBuffer = <<>>
    /\ m_moveCapacity = InitialMoveCapacity
    /\ m_moveCount = 0
    /\ m_moveBuffer = <<>>
    /\ m_queryProxyId = Indeterminate   \* not set by the constructor
    /\ proxyIds = {}
    /\ addPairCalls = <<>>
    /\ lastOp = Op("Init", e_nullProxy, NoAABB, NoVec, nullptr, FALSE)
    /\ m_index = NewStack.index
    /\ m_allocation = NewStack.allocation
    /\ m_maxAllocation = NewStack.maxAllocation
    /\ m_entries = NewStack.entries
    /\ m_entryCount = NewStack.entryCount
    /\ stackPeak = 0
    /\ stackOp = StackCall("Init", "", 0, nullptr)
    /\ m_chunks = NewBlockAllocator.chunks
    /\ m_freeLists = NewBlockAllocator.freeLists
    /\ systemHeap = NewBlockAllocator.heap
    /\ blockLive = <<>>
    /\ blockOp = BlockCalls("Init", 0, nullptr, BlockCall("", 0, nullptr))
    /\ rayCastOp = NoRayCast

\* -------------------------------------------------------------- actions
\* b2BroadPhase::CreateProxy
CreateProxy(aabb, userData) ==
    LET Created(c) ==
            /\ SetTree(c.T)
            /\ m_proxyCount' = m_proxyCount + 1
            /\ SetMoves(BufferMove(Moves, c.id))
            /\ proxyIds' = proxyIds \cup {c.id}
            /\ addPairCalls' = <<>>
            /\ lastOp' = Op("CreateProxy", c.id, aabb, NoVec, userData, FALSE)
            /\ UNCHANGED <<pairVars, m_queryProxyId,
                           allocatorVars>>
            /\ rayCastOp' = NoRayCast
    IN Created(Tree_CreateProxy(Tree, aabb, userData))

\* Faulty variant of DestroyProxy: m_proxyCount is not decremented.
DestroyProxy_KeepsCount(proxyId) ==
    /\ SetMoves(UnBufferMove(Moves, proxyId))
    /\ m_proxyCount' = m_proxyCount
    /\ SetTree(Tree_DestroyProxy(Tree, proxyId))
    /\ proxyIds' = proxyIds \ {proxyId}
    /\ addPairCalls' = <<>>
    /\ lastOp' = Op("DestroyProxy", proxyId, NoAABB, NoVec, nullptr, FALSE)
    /\ UNCHANGED <<pairVars, m_queryProxyId,
                   allocatorVars>>
    /\ rayCastOp' = NoRayCast

\* b2BroadPhase::DestroyProxy
DestroyProxy(proxyId) ==
    /\ SetMoves(UnBufferMove(Moves, proxyId))
    /\ m_proxyCount' = m_proxyCount - 1
    /\ SetTree(Tree_DestroyProxy(Tree, proxyId))
    /\ proxyIds' = proxyIds \ {proxyId}
    /\ addPairCalls' = <<>>
    /\ lastOp' = Op("DestroyProxy", proxyId, NoAABB, NoVec, nullptr, FALSE)
    /\ UNCHANGED <<pairVars, m_queryProxyId,
                   allocatorVars>>
    /\ rayCastOp' = NoRayCast

\* b2BroadPhase::MoveProxy
MoveProxy(proxyId, aabb, displacement, maxMoves) ==
    LET Moved(m) ==
            LET buffer == m.ret
            IN /\ buffer => m_moveCount < maxMoves
               /\ SetTree(m.T)
               /\ SetMoves(IF buffer THEN BufferMove(Moves, proxyId) ELSE Moves)
               /\ addPairCalls' = <<>>
               /\ lastOp' = Op("MoveProxy", proxyId, aabb, displacement, nullptr, m.ret)
               /\ UNCHANGED <<m_proxyCount, pairVars, m_queryProxyId, proxyIds,
                              allocatorVars>>
               /\ rayCastOp' = NoRayCast
    IN Moved(Tree_MoveProxy(Tree, proxyId, aabb, displacement))

\* b2BroadPhase::TouchProxy
TouchProxy(proxyId) ==
    /\ SetMoves(BufferMove(Moves, proxyId))
    /\ addPairCalls' = <<>>
    /\ lastOp' = Op("TouchProxy", proxyId, NoAABB, NoVec, nullptr, FALSE)
    /\ UNCHANGED <<treeVars, m_proxyCount, pairVars, m_queryProxyId, proxyIds,
                   allocatorVars>>
    /\ rayCastOp' = NoRayCast

\* b2BroadPhase::UpdatePairs
UpdatePairs ==
    LET P == GatherPairs(ResetPairs(Pairs), Tree, m_moveBuffer, 1)
    IN /\ SetPairs(P)
       /\ m_queryProxyId' = IF m_moveCount > 0 THEN m_moveBuffer[m_moveCount]
                            ELSE m_queryProxyId
       /\ addPairCalls' = SendPairs(P, Tree)
       /\ SetTree(ClearMoveFlags(Tree, m_moveBuffer, 1))
       /\ m_moveCount' = 0
       /\ m_moveBuffer' = <<>>
       /\ lastOp' = [Op("UpdatePairs", e_nullProxy, NoAABB, NoVec, nullptr, FALSE)
                       EXCEPT !.moves = m_moveBuffer,
                              !.moved = {i \in proxyIds : m_nodes[i].moved},
                              !.prev = lastOp.op]
       /\ UNCHANGED <<m_proxyCount, m_moveCapacity, proxyIds,
                      allocatorVars>>
       /\ rayCastOp' = NoRayCast

\* The program after an access outside m_nodes. A write there lands in
\* whatever object lies next to the pool, a read takes that object's bytes for
\* a node and the call goes on from them: no member of the broad-phase, of
\* its tree or of the allocators holds a value the program determines, nor
\* does the call's return value, if the call returns at all.
UndefinedProgram ==
    /\ SetTree(UndefinedTree)
    /\ m_proxyCount' = Indeterminate
    /\ m_moveBuffer' = Indeterminate
    /\ m_moveCapacity' = Indeterminate
    /\ m_moveCount' = Indeterminate
    /\ m_pairBuffer' = Indeterminate
    /\ m_pairCapacity' = Indeterminate
    /\ m_pairCount' = Indeterminate
    /\ m_queryProxyId' = Indeterminate
    /\ m_index' = Indeterminate
    /\ m_allocation' = Indeterminate
    /\ m_maxAllocation' = Indeterminate
    /\ m_entries' = Indeterminate
    /\ m_entryCount' = Indeterminate
    /\ m_chunks' = Indeterminate
    /\ m_freeLists' = Indeterminate
    /\ UNCHANGED <<stackPeak, stackOp, systemHeap, blockLive, blockOp>>

\* What lastOp.op says of a call on an id that is not a live proxy: the name
\* of the operation when the call went through to its end, else how it ended.
InvalidOp(op, status) == IF status = "done" THEN op ELSE status

\* b2BroadPhase::DestroyProxy with an id that is not a live proxy, assertions
\* compiled in. The move buffer and m_proxyCount are written before the tree
\* is called. The tree is the one at the end of the call, at the failed
\* assertion or at the start of the loop without end; lastOp.op says which.
\* After an access outside the pool the program is undefined.
InvalidDestroyProxy(proxyId) ==
    LET Done(r) ==
            /\ IF r.status = "undefined" THEN UndefinedProgram
               ELSE /\ SetMoves(UnBufferMove(Moves, proxyId))
                    /\ m_proxyCount' = m_proxyCount - 1
                    /\ SetTree(r.T)
                    /\ UNCHANGED <<pairVars, m_queryProxyId, allocatorVars>>
            /\ addPairCalls' = <<>>
            /\ lastOp' = [Op(InvalidOp("DestroyProxy", r.status),
                             proxyId, NoAABB, NoVec, nullptr, FALSE)
                            EXCEPT !.prev = "invalid id"]
            /\ UNCHANGED proxyIds
            /\ rayCastOp' = NoRayCast
    IN /\ proxyId \notin proxyIds
       /\ Done(DestroyProxyAsserting(Tree, proxyId))

\* b2BroadPhase::MoveProxy with an id that is not a live proxy, assertions
\* compiled in. The move is buffered when the tree's call returns true.
\* After an access outside the pool the program is undefined, the value the
\* tree's call returns included.
InvalidMoveProxy(proxyId, aabb) ==
    LET Done(r) ==
            /\ IF r.status = "undefined" THEN UndefinedProgram
               ELSE /\ SetTree(r.T)
                    /\ SetMoves(IF r.ret THEN BufferMove(Moves, proxyId) ELSE Moves)
                    /\ UNCHANGED <<m_proxyCount, pairVars, m_queryProxyId,
                                   allocatorVars>>
            /\ addPairCalls' = <<>>
            /\ lastOp' = [Op(InvalidOp("MoveProxy", r.status),
                             proxyId, aabb, NoVec, nullptr, r.ret)
                            EXCEPT !.prev = "invalid id"]
            /\ UNCHANGED proxyIds
            /\ rayCastOp' = NoRayCast
    IN /\ proxyId \notin proxyIds
       /\ Done(MoveProxyAsserting(Tree, proxyId, aabb, NoVec))

\* b2BroadPhase::RayCast
RayCast(callback, input, order) ==
    /\ rayCastOp' = RayCastRecord(callback, input, order,
                                  BroadPhase_RayCast(Tree, callback, input, order))
    /\ addPairCalls' = <<>>
    /\ lastOp' = Op("RayCast", e_nullProxy, NoAABB, NoVec, nullptr, FALSE)
    /\ UNCHANGED <<treeVars, moveVars, m_proxyCount, pairVars, m_queryProxyId,
                   proxyIds,
                   allocatorVars>>

\* b2StackAllocator::Allocate
StackAllocate(size) ==
    LET Done(r) ==
            /\ SetStack(r.S)
            /\ stackPeak' = b2Max(stackPeak, Outstanding(r.S.entries))
            /\ stackOp' = StackCall(IF r.failed THEN "b2Assert" ELSE "Allocate",
                                    "Allocate", size, r.p)
            /\ UNCHANGED <<broadPhaseVars, blockVars>>
    IN Done(Stack_Allocate(Stack, size))

\* b2StackAllocator::Free
StackFree(p) ==
    LET Done(r) ==
            /\ SetStack(r.S)
            /\ stackPeak' = b2Max(stackPeak, Outstanding(r.S.entries))
            /\ stackOp' = StackCall(IF r.failed THEN "b2Assert" ELSE "Free",
                                    "Free", 0, p)
            /\ UNCHANGED <<broadPhaseVars, blockVars>>
    IN Done(Stack_Free(Stack, p))

\* b2BlockAllocator::Allocate
BlockAllocate(size) ==
    LET Done(r) ==
            /\ SetBlocks(r.B)
            /\ blockLive' = Append(blockLive, [p |-> r.p, size |-> size])
            /\ blockOp' = BlockCalls("Allocate", size, r.p, blockOp)
            /\ UNCHANGED <<broadPhaseVars, stackVars>>
    IN Done(Block_Allocate(Blocks, size))

\* b2BlockAllocator::Free of the i-th outstanding allocation, with the size
\* it was allocated with
BlockFree(i) ==
    /\ SetBlocks(Block_Free(Blocks, blockLive[i].p, blockLive[i].size))
    /\ blockLive' = SubSeq(blockLive, 1, i - 1) \o SubSeq(blockLive, i + 1, Len(blockLive))
    /\ blockOp' = BlockCalls("Free", blockLive[i].size, blockLive[i].p, blockOp)
    /\ UNCHANGED <<broadPhaseVars, stackVars>>

Next ==
    \/ \E aabb \in Boxes, userData \in UserDatas :
          /\ m_proxyCount < MaxProxies
          /\ m_moveCount < MaxMoves
          /\ CreateProxy(aabb, userData)
    \/ \E proxyId \in proxyIds : DestroyProxy(proxyId)
    \/ \E proxyId \in proxyIds, aabb \in Boxes, displacement \in Displacements :
          MoveProxy(proxyId, aabb, displacement, MaxMoves)
    \/ \E proxyId \in proxyIds : m_moveCount < MaxMoves /\ TouchProxy(proxyId)
    \/ UpdatePairs

Spec == Init /\ [][Next]_vars

\* The same operations on the inputs of the MoveProxy scenarios.
NextMove ==
    \/ \E aabb \in MoveBoxes, userData \in MoveUserDatas :
          /\ m_proxyCount < MaxMoveProxies
          /\ m_moveCount < MaxMoveMoves
          /\ CreateProxy(aabb, userData)
    \/ \E proxyId \in proxyIds, aabb \in MoveBoxes, displacement \in MoveDisplacements :
          MoveProxy(proxyId, aabb, displacement, MaxMoveMoves)
    \/ UpdatePairs

SpecMove == Init /\ [][NextMove]_vars

\* World stepping: the proxies are created and paired, then every step is
\* some MoveProxy calls followed by UpdatePairs.
NextStep ==
    \/ \E aabb \in Boxes :
          /\ m_proxyCount < StepProxies
          /\ lastOp.op \in {"Init", "CreateProxy"}
          /\ CreateProxy(aabb, StepUserData[m_proxyCount + 1])
    \/ \E proxyId \in proxyIds, aabb \in Boxes, displacement \in Displacements :
          /\ lastOp.op \in {"UpdatePairs", "MoveProxy"}
          /\ MoveProxy(proxyId, aabb, displacement, StepMoves)
    \/ m_proxyCount > 0 /\ UpdatePairs

SpecStep == Init /\ [][NextStep]_vars

\* Scenario S1/S2: from the empty broad-phase, two proxies are created and
\* UpdatePairs is called once.
NextS1 ==
    \/ \E aabb \in S1Boxes, userData \in S1UserDatas :
          /\ m_proxyCount < 2
          /\ lastOp.op \in {"Init", "CreateProxy"}
          /\ CreateProxy(aabb, userData)
    \/ m_proxyCount = 2 /\ lastOp.op = "CreateProxy" /\ UpdatePairs

SpecS1 == Init /\ [][NextS1]_vars

\* Tree maintenance: proxies are created, moved far enough to be re-inserted,
\* and destroyed; UpdatePairs is not called, so the move buffer counts the
\* insertions.
NextTree ==
    \/ /\ m_proxyCount < TreeProxies
       /\ m_moveCount < TreeMoves
       /\ CreateProxy(NthCell(m_moveCount), TreeUserData[m_moveCount + 1])
    \/ \E proxyId \in proxyIds : DestroyProxy(proxyId)
    \/ \E proxyId \in proxyIds, aabb \in TreeBoxes :
          MoveProxy(proxyId, aabb, NoVec, TreeMoves)

SpecTree == Init /\ [][NextTree]_vars

\* Arena growth: enough proxies are created to exhaust the initial pool and
\* proxies are destroyed, moved and created again at that size.
NextGrow ==
    \/ /\ m_proxyCount < GrowProxies
       /\ m_moveCount < GrowMoves
       /\ CreateProxy(NthCell(m_moveCount), TreeUserData[m_moveCount + 1])
    \/ \E proxyId \in proxyIds :
          /\ m_proxyCount >= GrowProxies
          /\ DestroyProxy(proxyId)
    \/ \E proxyId \in proxyIds, aabb \in GrowBoxes :
          /\ m_proxyCount >= GrowProxies
          /\ MoveProxy(proxyId, aabb, NoVec, GrowMoves)

SpecGrow == Init /\ [][NextGrow]_vars

\* Proxies are created, moved and destroyed; then one call names an id that
\* is no live proxy, after which nothing more is called.
NextInvalid ==
    \/ /\ lastOp.prev # "invalid id"
       /\ m_proxyCount < InvalidProxies
       /\ m_moveCount < InvalidMoves
       /\ CreateProxy(NthCell(m_moveCount), TreeUserData[m_moveCount + 1])
    \/ \E proxyId \in proxyIds :
          /\ lastOp.prev # "invalid id"
          /\ DestroyProxy(proxyId)
    \/ \E proxyId \in proxyIds, aabb \in TreeBoxes :
          /\ lastOp.prev # "invalid id"
          /\ MoveProxy(proxyId, aabb, NoVec, InvalidMoves)
    \/ /\ lastOp.prev # "invalid id"
       /\ \E proxyId \in b2_nullNode .. m_nodeCapacity :
             InvalidDestroyProxy(proxyId)
    \/ /\ lastOp.prev # "invalid id"
       /\ \E proxyId \in b2_nullNode .. m_nodeCapacity, aabb \in TreeBoxes :
             InvalidMoveProxy(proxyId, aabb)

SpecInvalid == Init /\ [][NextInvalid]_vars

\* Ray casts over maintained trees: proxies are created on the cells, moved
\* and destroyed as in SpecTree, and rays are cast with each callback. A cast
\* leaves the tree as it is, so a second cast in a row finds what a first one
\* does and is left out.
NextRay ==
    \/ /\ m_proxyCount < RayProxies
       /\ m_moveCount < RayMoves
       /\ CreateProxy(NthCell(m_moveCount), TreeUserData[m_moveCount + 1])
    \/ \E proxyId \in proxyIds : DestroyProxy(proxyId)
    \/ \E proxyId \in proxyIds, aabb \in TreeBoxes :
          MoveProxy(proxyId, aabb, NoVec, RayMoves)
    \/ \E callback \in RayCastCallbacks, input \in RayCastInputs,
          order \in PushOrders :
          /\ lastOp.op # "RayCast"
          /\ RayCast(callback, input, order)

SpecRay == Init /\ [][NextRay]_vars

\* b2DynamicTree::RebuildBottomUp on the tree of the broad-phase. The broad-
\* phase keeps its counters and buffers.
RebuildBottomUp ==
    LET Done(r) ==
            /\ SetTree(r.T)
            /\ lastOp' = [Op("RebuildBottomUp", b2_nullNode, NoAABB, NoVec, nullptr,
                             FALSE)
                            EXCEPT !.prev = IF r.uninitialized
                                            THEN "uninitialized read" ELSE ""]
            /\ addPairCalls' = <<>>
            /\ UNCHANGED <<moveVars, pairVars, m_queryProxyId, m_proxyCount,
                           proxyIds, allocatorVars>>
            /\ rayCastOp' = NoRayCast
    IN Done(Tree_RebuildBottomUp(Tree))

\* Rebuilds between the operations of tree maintenance. A rebuild that read
\* m_root from an unwritten block ends the run: what the tree does from there
\* is not defined. A rebuilt tree is rebuilt to itself, so a second rebuild in
\* a row is left out.
NextRebuild ==
    \/ /\ lastOp.prev # "uninitialized read"
       /\ m_proxyCount < RebuildProxies
       /\ m_moveCount < RebuildMoves
       /\ CreateProxy(NthCell(m_moveCount), TreeUserData[m_moveCount + 1])
    \/ \E proxyId \in proxyIds :
          /\ lastOp.prev # "uninitialized read"
          /\ DestroyProxy(proxyId)
    \/ \E proxyId \in proxyIds, aabb \in TreeBoxes :
          /\ lastOp.prev # "uninitialized read"
          /\ MoveProxy(proxyId, aabb, NoVec, RebuildMoves)
    \/ /\ lastOp.prev # "uninitialized read"
       /\ lastOp.op # "RebuildBottomUp"
       /\ RebuildBottomUp

SpecRebuild == Init /\ [][NextRebuild]_vars

\* b2BroadPhase::ShiftOrigin: the tree shifts its boxes; no move is buffered
\* and no flag set.
ShiftOrigin(newOrigin) ==
    /\ SetTree(Tree_ShiftOrigin(Tree, newOrigin))
    /\ addPairCalls' = <<>>
    /\ lastOp' = Op("ShiftOrigin", e_nullProxy, NoAABB, newOrigin, nullptr, FALSE)
    /\ UNCHANGED <<moveVars, pairVars, m_queryProxyId, m_proxyCount, proxyIds,
                   allocatorVars>>
    /\ rayCastOp' = NoRayCast

\* The origins a caller shifts to: one cell to the right, or up and to the
\* left by as much.
ShiftOrigins == {Vec(300, 0), Vec(-300, 300)}

\* How far the origin has been shifted to the right in all. The last slot of
\* the pool is not allocated within the bounds of SpecShift: its box started
\* at 0 and has taken every shift.
ShiftedBy == 0 - m_nodes[m_nodeCapacity - 1].aabb.lowerBound.x

\* One origin shift, of at most ShiftRange, at any point between the
\* operations of tree maintenance, followed by UpdatePairs or not.
\* The boxes of CreateProxy and MoveProxy are the cells, in the coordinates of
\* the time of the call.
NextShift ==
    \/ /\ m_proxyCount < ShiftProxies
       /\ m_moveCount < ShiftMoves
       /\ CreateProxy(NthCell(m_moveCount), TreeUserData[m_moveCount + 1])
    \/ \E proxyId \in proxyIds : DestroyProxy(proxyId)
    \/ \E proxyId \in proxyIds, aabb \in GrowBoxes :
          MoveProxy(proxyId, aabb, NoVec, ShiftMoves)
    \/ \E newOrigin \in ShiftOrigins :
          /\ ShiftedBy = 0
          /\ b2Abs(newOrigin.x) <= ShiftRange
          /\ ShiftOrigin(newOrigin)
    \/ lastOp.op = "ShiftOrigin" /\ UpdatePairs

SpecShift == Init /\ [][NextShift]_vars

\* Buffer growth: up to BufferChoiceDepth buffered moves come from creating,
\* moving and touching any proxy; beyond that the live proxy of lowest id is
\* touched until the buffer holds BufferMoves entries, provided the pair buffer
\* is empty (as at the start, or after an update without pairs). Proxies are
\* moved while the proxy of a move is chosen freely; they are destroyed and
\* pairs are updated then too, when the buffer has just grown for the first
\* time, and when it holds BufferMoves entries.
BufferBoxes == {BoxA, BoxB}

BufferCheckpoint ==
    \/ m_moveCount <= BufferChoiceDepth
    \/ m_moveCount = InitialMoveCapacity + 1
    \/ m_moveCount = BufferMoves

NextBuffers ==
    \/ \E aabb \in BufferBoxes :
          /\ m_proxyCount < BufferProxies
          /\ m_moveCount < BufferChoiceDepth
          /\ CreateProxy(aabb, StepUserData[m_proxyCount + 1])
    \/ \E proxyId \in proxyIds : BufferCheckpoint /\ DestroyProxy(proxyId)
    \/ \E proxyId \in proxyIds, aabb \in BufferBoxes :
          /\ m_moveCount <= BufferChoiceDepth
          /\ MoveProxy(proxyId, aabb, NoVec, BufferChoiceDepth)
    \/ \E proxyId \in proxyIds :
          /\ m_moveCount < BufferChoiceDepth
          /\ TouchProxy(proxyId)
    \/ \E proxyId \in proxyIds :
          /\ m_moveCount >= BufferChoiceDepth
          /\ m_moveCount < BufferMoves
          /\ m_pairCount = 0
          /\ \A other \in proxyIds : proxyId <= other
          /\ TouchProxy(proxyId)
    \/ m_proxyCount > 0 /\ BufferCheckpoint /\ UpdatePairs

SpecBuffers == Init /\ [][NextBuffers]_vars

\* The pointers a caller passes to Free: the top entry's, as it should, or
\* that of the entry below it, of the first entry, or a pointer that was
\* never returned.
FreeArguments ==
    {m_entries[i].data : i \in {1, m_entryCount - 1, m_entryCount} \cap 1 .. m_entryCount}
        \cup {StrayPtr}

\* b2StackAllocator alone: allocations of chosen sizes up to StackChoiceDepth
\* entries and of FillSize beyond, frees with right and wrong pointers; a
\* failed assertion ends the run. Beyond StackChoiceDepth the frees start
\* when all entries are in use.
NextStack ==
    \/ \E size \in StackSizes :
          /\ stackOp.op # "b2Assert"
          /\ m_entryCount < StackChoiceDepth
          /\ StackAllocate(size)
    \/ /\ stackOp.op # "b2Assert"
       /\ m_entryCount >= StackChoiceDepth
       /\ StackAllocate(FillSize)
    \/ \E p \in FreeArguments :
          /\ stackOp.op # "b2Assert"
          /\ \/ m_entryCount <= StackChoiceDepth
             \/ m_entryCount = b2_maxStackEntries
             \/ stackOp.op = "Free"
          /\ StackFree(p)

SpecStack == Init /\ [][NextStack]_vars

\* b2BlockAllocator calls: up to BlockChoiceDepth outstanding blocks of any
\* of the sizes, freed in any order; beyond that blocks of the largest class,
\* up to BlockFill outstanding (a chunk of that class holds 25), freed latest
\* first.
NextBlock ==
    \/ \E size \in BlockRequestSizes :
          /\ Len(blockLive) < BlockChoiceDepth
          /\ BlockAllocate(size)
    \/ /\ Len(blockLive) >= BlockChoiceDepth
       /\ Len(blockLive) < BlockFill
       /\ BlockAllocate(b2_maxBlockSize)
    \/ \E i \in 1 .. Len(blockLive) :
          /\ Len(blockLive) <= BlockChoiceDepth \/ i = Len(blockLive)
          /\ BlockFree(i)

SpecBlock == Init /\ [][NextBlock]_vars

\* ------------------------------------------------- vocabulary of the claims
Occurrences(seq, x) == Cardinality({i \in 1 .. Len(seq) : seq[i] = x})

Entries(seq) == {seq[i] : i \in 1 .. Len(seq)}

\* The fat AABBs of two proxies overlap (b2BroadPhase::TestOverlap).
FatOverlap(a, b) == b2TestOverlap(m_nodes[a].aabb, m_nodes[b].aabb)

\* The AddPair calls of the latest UpdatePairs that are about proxies a, b.
PairIndices(a, b) ==
    {i \in 1 .. Len(addPairCalls) :
        {m_pairBuffer[i].proxyIdA, m_pairBuffer[i].proxyIdB} = {a, b}}

\* Call i passed the userData of proxy a first and that of proxy b second.
OrderedCall(i, a, b) ==
    addPairCalls[i] = [userDataA |-> m_nodes[a].userData,
                       userDataB |-> m_nodes[b].userData]

Updated == lastOp.op = "UpdatePairs"

\* A fat AABB with the extension taken off again.
Shrink(fat) ==
    AABB(fat.lowerBound.x + b2_aabbExtension, fat.lowerBound.y + b2_aabbExtension,
         fat.upperBound.x - b2_aabbExtension, fat.upperBound.y - b2_aabbExtension)

\* The leaves below a node, by child pointers.
RECURSIVE LeavesBelow(_, _)
LeavesBelow(nodes, i) ==
    IF i = b2_nullNode THEN {}
    ELSE IF nodes[i].child1 = b2_nullNode THEN {i}
    ELSE LeavesBelow(nodes, nodes[i].child1) \cup LeavesBelow(nodes, nodes[i].child2)

\* ---------------------------------------------------------------- C1
\* C1 as stated: after a step in which two overlapping proxies were both
\* moved by MoveProxy calls that restructured the tree (any number of times
\* each), UpdatePairs calls AddPair for the pair exactly once, lower id's
\* userData first. (SpecStep: moved flags at an UpdatePairs that follows a
\* MoveProxy come from MoveProxy calls of this step only.)
C1_Original ==
    (Updated /\ lastOp.prev = "MoveProxy") =>
        \A a \in lastOp.moved, b \in lastOp.moved :
            (a < b /\ FatOverlap(a, b)) =>
                /\ Cardinality(PairIndices(a, b)) = 1
                /\ \A i \in PairIndices(a, b) : OrderedCall(i, a, b)

\* C1 amended: when two proxies with overlapping fat AABBs both carry the
\* moved flag at UpdatePairs, AddPair is called for the pair once per
\* occurrence of the higher proxy id in the move buffer (exactly once when
\* the higher id was buffered once), each time with the userData of the
\* lower proxy id first.
C1_MutualMovePairs ==
    Updated =>
        \A a \in lastOp.moved, b \in lastOp.moved :
            (a < b /\ FatOverlap(a, b)) =>
                /\ Cardinality(PairIndices(a, b)) = Occurrences(lastOp.moves, b)
                /\ \A i \in PairIndices(a, b) : OrderedCall(i, a, b)

C1_Witness ==
    /\ Updated
    /\ lastOp.prev = "MoveProxy"
    /\ \E a \in lastOp.moved, b \in lastOp.moved :
          /\ a < b
          /\ FatOverlap(a, b)
          /\ Occurrences(lastOp.moves, a) = 2
          /\ Occurrences(lastOp.moves, b) = 1
          /\ Cardinality(PairIndices(a, b)) = 1
          /\ m_nodes[a].userData # m_nodes[b].userData

\* ---------------------------------------------------------------- C2
\* C2: for every non-null move buffer entry q at UpdatePairs and every other
\* live proxy p whose fat AABB overlaps q's, AddPair is called for the pair
\* at least once, p moved or not.
C2_BufferedProxyPairsReported ==
    Updated =>
        \A q \in Entries(lastOp.moves) \ {e_nullProxy} :
            \A p \in proxyIds \ {q} :
                FatOverlap(p, q) =>
                    \E i \in PairIndices(p, q) :
                        OrderedCall(i, b2Min(p, q), b2Max(p, q))

C2_Witness ==
    /\ Updated
    /\ e_nullProxy \in Entries(lastOp.moves)
    /\ \E q \in Entries(lastOp.moves) \ {e_nullProxy} :
          \E p \in proxyIds \ {q} :
              /\ p \notin lastOp.moved
              /\ p \notin Entries(lastOp.moves)
              /\ FatOverlap(p, q)
              /\ PairIndices(p, q) # {}

\* ---------------------------------------------------------------- C3
\* C3 as stated: a pair of one proxy pending in the move buffer and one
\* stationary proxy (not buffered, moved flag false) with overlapping fat
\* AABBs is passed to AddPair exactly once by an UpdatePairs call.
C3_Original ==
    Updated =>
        \A q \in Entries(lastOp.moves) \ {e_nullProxy} :
            \A p \in proxyIds \ (Entries(lastOp.moves) \cup lastOp.moved) :
                FatOverlap(p, q) => Cardinality(PairIndices(p, q)) = 1

\* C3 amended: such a pair is passed to AddPair once per occurrence of the
\* pending proxy in the move buffer (exactly once when it was buffered once).
C3_PendingStationaryPairs ==
    Updated =>
        \A q \in Entries(lastOp.moves) \ {e_nullProxy} :
            \A p \in proxyIds \ (Entries(lastOp.moves) \cup lastOp.moved) :
                FatOverlap(p, q) =>
                    Cardinality(PairIndices(p, q)) = Occurrences(lastOp.moves, q)

C3_Witness ==
    /\ Updated
    /\ \E q \in Entries(lastOp.moves) \ {e_nullProxy} :
          \E p \in proxyIds \ (Entries(lastOp.moves) \cup lastOp.moved) :
              /\ FatOverlap(p, q)
              /\ p > q
              /\ Occurrences(lastOp.moves, q) = 1
              /\ Cardinality(PairIndices(p, q)) = 1

\* ---------------------------------------------------------------- C4
\* C4: from the empty broad-phase, two proxies with overlapping AABBs are
\* created and UpdatePairs is called: exactly one AddPair call, with the
\* userData of the first-created proxy (the lower id) first.
C4_BasicOverlapOnePair ==
    (Updated /\ lastOp.prev = "CreateProxy" /\ Len(lastOp.moves) = 2) =>
        LET first == lastOp.moves[1]
            second == lastOp.moves[2]
        IN b2TestOverlap(Shrink(m_nodes[first].aabb), Shrink(m_nodes[second].aabb)) =>
              /\ first < second
              /\ addPairCalls = << [userDataA |-> m_nodes[first].userData,
                                    userDataB |-> m_nodes[second].userData] >>

C4_Witness ==
    /\ Updated
    /\ lastOp.moves = <<0, 1>>
    /\ Shrink(m_nodes[0].aabb) = BoxA
    /\ Shrink(m_nodes[1].aabb) = BoxB
    /\ addPairCalls = << [userDataA |-> "A", userDataB |-> "B"] >>

\* ---------------------------------------------------------------- C5
\* C5: UpdatePairs with an empty move buffer makes no AddPair call and
\* leaves the tree (moved flags included), the proxy count and the move
\* count unchanged.
C5_EmptyUpdateIsIdle ==
    [][(lastOp'.op = "UpdatePairs" /\ m_moveCount = 0) =>
          /\ addPairCalls' = <<>>
          /\ UNCHANGED treeVars
          /\ UNCHANGED m_proxyCount
          /\ m_moveCount' = 0]_vars

C5_Witness ==
    /\ Updated
    /\ lastOp.prev = "UpdatePairs"
    /\ lastOp.moves = <<>>
    /\ addPairCalls = <<>>
    /\ \E a \in proxyIds, b \in proxyIds : a # b /\ FatOverlap(a, b)

\* ------------------------------------------------------- MoveProxy claims
\* The step is a MoveProxy call; its arguments and return value are lastOp'.
MoveStep == lastOp'.op = "MoveProxy"

\* aabb grown by margin on every side.
Inflate(aabb, margin) ==
    AABB(aabb.lowerBound.x - margin, aabb.lowerBound.y - margin,
         aabb.upperBound.x + margin, aabb.upperBound.y + margin)

\* The leaf is in the tree again: reachable from the root, with its parent
\* (if any) pointing at it.
LeafInTree(nodes, root, id) ==
    /\ id \in LeavesBelow(nodes, root)
    /\ nodes[id].height = 0
    /\ id # root => id \in {nodes[nodes[id].parent].child1, nodes[nodes[id].parent].child2}

\* ---------------------------------------------------------------- C6
\* C6 as stated: tree.MoveProxy returns false exactly when the stored fat
\* AABB contains the new aabb and the new fat AABB inflated by 4x extension
\* does NOT contain the stored fat AABB.
C6_Original ==
    [][MoveStep =>
          LET stored == m_nodes[lastOp'.id].aabb
              fat == PredictedFatAABB(lastOp'.aabb, lastOp'.d)
          IN (lastOp'.ret = FALSE) <=>
                (/\ Contains(stored, lastOp'.aabb)
                 /\ ~Contains(Inflate(fat, 4 * b2_aabbExtension), stored))]_vars

\* C6 amended: tree.MoveProxy returns false and leaves the tree untouched
\* exactly when the stored fat AABB contains the new aabb and the new fat
\* AABB inflated by 4x extension on every side DOES contain the stored fat
\* AABB; in every other case the leaf is taken out, given the new fat AABB,
\* put back, marked moved, and true is returned.
C6_MoveProxyDecision ==
    [][MoveStep =>
          LET id == lastOp'.id
              stored == m_nodes[id].aabb
              fat == PredictedFatAABB(lastOp'.aabb, lastOp'.d)
              absorbed == /\ Contains(stored, lastOp'.aabb)
                          /\ Contains(Inflate(fat, 4 * b2_aabbExtension), stored)
          IN /\ (lastOp'.ret = FALSE) <=> absorbed
             /\ absorbed => UNCHANGED treeVars
             /\ ~absorbed =>
                   /\ m_nodes'[id].aabb = fat
                   /\ m_nodes'[id].moved
                   /\ LeafInTree(m_nodes', m_root', id)
                   /\ m_nodeCount' = m_nodeCount]_vars

\* A move the fat AABB absorbed although the new fat AABB differs from it.
C6_Witness ==
    /\ lastOp.op = "MoveProxy"
    /\ lastOp.ret = FALSE
    /\ m_nodes[lastOp.id].aabb # PredictedFatAABB(lastOp.aabb, lastOp.d)
    /\ Contains(m_nodes[lastOp.id].aabb, lastOp.aabb)
    /\ Contains(Inflate(PredictedFatAABB(lastOp.aabb, lastOp.d), 4 * b2_aabbExtension),
                m_nodes[lastOp.id].aabb)
    /\ m_proxyCount = 2

\* ---------------------------------------------------------------- C7
\* C7: when the stored fat AABB is a inflated by the extension (the proxy was
\* created with a and not re-inserted since), MoveProxy(id, a, (0,0)) returns
\* false, and so does a move to a shifted by s, |s| < extension on both axes,
\* with a displacement below the extension on both axes (S3: shift and
\* displacement 0.01); the tree is identical afterwards.
C7_SmallShiftAbsorbed ==
    [][MoveStep =>
          LET a == Shrink(m_nodes[lastOp'.id].aabb)
              new == lastOp'.aabb
              s == Vec(new.lowerBound.x - a.lowerBound.x, new.lowerBound.y - a.lowerBound.y)
          IN (/\ new.upperBound.x - a.upperBound.x = s.x
              /\ new.upperBound.y - a.upperBound.y = s.y
              /\ -b2_aabbExtension < s.x /\ s.x < b2_aabbExtension
              /\ -b2_aabbExtension < s.y /\ s.y < b2_aabbExtension
              /\ -b2_aabbExtension < lastOp'.d.x /\ lastOp'.d.x < b2_aabbExtension
              /\ -b2_aabbExtension < lastOp'.d.y /\ lastOp'.d.y < b2_aabbExtension)
             => (lastOp'.ret = FALSE /\ UNCHANGED treeVars)]_vars

\* Scenario S3: created at [(0,0),(1,1)], moved to [(0.01,0.01),(1.01,1.01)]
\* with displacement (0.01,0.01).
C7_Witness ==
    /\ lastOp.op = "MoveProxy"
    /\ lastOp.ret = FALSE
    /\ lastOp.aabb = BoxShift
    /\ lastOp.d = Vec(1, 1)
    /\ m_nodes[lastOp.id].aabb = Fatten(BoxA)
    /\ m_proxyCount = 2

\* ---------------------------------------------------------------- C8
\* Every bound of aabb is less than the extension away from that of fat.
NearOnEveryBound(aabb, fat) ==
    LET Near(u, v) == u - v < b2_aabbExtension /\ v - u < b2_aabbExtension
    IN /\ Near(aabb.lowerBound.x, fat.lowerBound.x)
       /\ Near(aabb.lowerBound.y, fat.lowerBound.y)
       /\ Near(aabb.upperBound.x, fat.upperBound.x)
       /\ Near(aabb.upperBound.y, fat.upperBound.y)

\* C8 as stated: a MoveProxy with zero displacement whose new AABB differs
\* from the stored fat AABB by less than aabbExtension on every bound returns
\* false.
C8_Original ==
    [][(/\ MoveStep
        /\ lastOp'.d = Vec(0, 0)
        /\ NearOnEveryBound(lastOp'.aabb, m_nodes[lastOp'.id].aabb))
       => lastOp'.ret = FALSE]_vars

\* C8 amended: a MoveProxy with zero displacement whose new AABB lies inside
\* the stored fat AABB and differs from it by less than aabbExtension on
\* every bound returns false.
C8_NearAndInsideAbsorbed ==
    [][(/\ MoveStep
        /\ lastOp'.d = Vec(0, 0)
        /\ NearOnEveryBound(lastOp'.aabb, m_nodes[lastOp'.id].aabb)
        /\ Contains(m_nodes[lastOp'.id].aabb, lastOp'.aabb))
       => lastOp'.ret = FALSE]_vars

C8_Witness ==
    /\ lastOp.op = "MoveProxy"
    /\ lastOp.ret = FALSE
    /\ lastOp.d = Vec(0, 0)
    /\ lastOp.aabb = BoxIn
    /\ m_nodes[lastOp.id].aabb = Fatten(BoxA)
    /\ NearOnEveryBound(lastOp.aabb, m_nodes[lastOp.id].aabb)

\* ---------------------------------------------------------------- C9
\* C9: when tree.MoveProxy returns false nothing of the tree changes and
\* BroadPhase.MoveProxy leaves move buffer, move count and proxy count alone;
\* the id is appended to the move buffer only when the tree returned true.
C9_FalseMoveChangesNothing ==
    [][MoveStep =>
          /\ lastOp'.ret = FALSE =>
                (UNCHANGED treeVars /\ UNCHANGED moveVars /\ UNCHANGED m_proxyCount)
          /\ m_moveBuffer' # m_moveBuffer =>
                (lastOp'.ret = TRUE /\ m_moveBuffer' = Append(m_moveBuffer, lastOp'.id))
          /\ UNCHANGED m_proxyCount]_vars

\* A false move of a proxy that was not pending: it stays unflagged and
\* unbuffered.
C9_Witness ==
    /\ lastOp.op = "MoveProxy"
    /\ lastOp.ret = FALSE
    /\ m_proxyCount = 2
    /\ m_moveBuffer = <<>>
    /\ ~m_nodes[lastOp.id].moved
    /\ lastOp.aabb # Shrink(m_nodes[lastOp.id].aabb)

\* --------------------------------------------------------------- C10
\* C10: when MoveProxy returns true the leaf's AABB is, per axis,
\* [lower - extension + min(0, multiplier*d), upper + extension +
\* max(0, multiplier*d)], its moved flag is true and id is the last entry of
\* the move buffer.
C10_TrueMoveStoresPredictedAABB ==
    [][(MoveStep /\ lastOp'.ret = TRUE) =>
          LET id == lastOp'.id
              a == lastOp'.aabb
              dx == b2_aabbMultiplier * lastOp'.d.x
              dy == b2_aabbMultiplier * lastOp'.d.y
          IN /\ m_nodes'[id].aabb =
                   AABB(a.lowerBound.x - b2_aabbExtension + b2Min(0, dx),
                        a.lowerBound.y - b2_aabbExtension + b2Min(0, dy),
                        a.upperBound.x + b2_aabbExtension + b2Max(0, dx),
                        a.upperBound.y + b2_aabbExtension + b2Max(0, dy))
             /\ m_nodes'[id].moved
             /\ m_moveBuffer' = Append(m_moveBuffer, id)
             /\ m_moveCount' = m_moveCount + 1]_vars

C10_Witness ==
    /\ lastOp.op = "MoveProxy"
    /\ lastOp.ret = TRUE
    /\ lastOp.d = Vec(-25, 25)
    /\ lastOp.aabb = BoxOut
    /\ m_nodes[lastOp.id].aabb = AABB(-125, -25, 115, 215)
    /\ m_nodes[lastOp.id].moved
    /\ m_moveBuffer = <<lastOp.id>>
    /\ m_proxyCount = 2

\* ------------------------------------------------------------ tree claims
\* The arena slots in use: FreeNode and the pool growth mark a free slot
\* with height -1.
LiveNodes(nodes) == {i \in DOMAIN nodes : nodes[i].height >= 0}

FreeSlots(nodes) == {i \in DOMAIN nodes : nodes[i].height = -1}

\* The slots met from slot i on by following next (the parent field), at most
\* fuel of them.
RECURSIVE Chain(_, _, _)
Chain(nodes, i, fuel) ==
    IF i = b2_nullNode \/ fuel = 0 THEN <<>>
    ELSE <<i>> \o Chain(nodes, nodes[i].parent, fuel - 1)

\* The free list of tree T in order; one entry more than the pool has slots
\* if the chain does not end.
FreeChain(T) == Chain(T.nodes, T.freeList, T.nodeCapacity + 1)

\* The nodes met from node i on by following child pointers, in preorder and
\* with repetitions, down to depth fuel.
RECURSIVE Preorder(_, _, _)
Preorder(nodes, i, fuel) ==
    IF i = b2_nullNode \/ fuel = 0 THEN <<>>
    ELSE <<i>> \o Preorder(nodes, nodes[i].child1, fuel - 1)
               \o Preorder(nodes, nodes[i].child2, fuel - 1)

IsPrefix(s, t) == Len(s) <= Len(t) /\ SubSeq(t, 1, Len(s)) = s

\* ---------------------------------------------------------------- C11
\* b2DynamicTree::CreateProxy followed by DestroyProxy of the id it returned.
CreateThenDestroy(T, aabb, userData) ==
    LET Destroy(c) == Tree_DestroyProxy(c.T, c.id)
    IN Destroy(Tree_CreateProxy(T, aabb, userData))

\* Tree U is tree T again: same root, same links, heights and AABBs of the
\* same live nodes, same free-list order (extended at the end if the pool
\* has grown).
SameTree(T, U) ==
    /\ U.root = T.root
    /\ LiveNodes(U.nodes) = LiveNodes(T.nodes)
    /\ \A i \in LiveNodes(T.nodes) :
          /\ U.nodes[i].parent = T.nodes[i].parent
          /\ U.nodes[i].child1 = T.nodes[i].child1
          /\ U.nodes[i].child2 = T.nodes[i].child2
          /\ U.nodes[i].height = T.nodes[i].height
          /\ U.nodes[i].aabb = T.nodes[i].aabb
    /\ IsPrefix(FreeChain(T), FreeChain(U))
    /\ U.nodeCapacity = T.nodeCapacity => FreeChain(U) = FreeChain(T)

\* C11 as stated: in every reachable tree, CreateProxy(a, u) immediately
\* followed by DestroyProxy of the returned id gives back the tree as it was:
\* root, links, heights, AABBs and free-list order.
C11_Original ==
    \A aabb \in TreeBoxes :
        SameTree(Tree, CreateThenDestroy(Tree, aabb, "Z"))

\* The number of rotations Balance performs during the upward walk from
\* index: Balance returns another node than the one it was given exactly
\* when it rotates.
RECURSIVE Rotations(_, _)
Rotations(T, index) ==
    IF index = b2_nullNode THEN 0
    ELSE
      LET Count(w) ==
              (IF w.id # index THEN 1 ELSE 0) + Rotations(w.T, w.T.nodes[w.id].parent)
      IN Count(WalkStep(T, index))

\* The rotations of the InsertLeaf of CreateProxy(aabb, userData) on tree T.
CreateRotations(T, aabb, userData) ==
    LET Walk(S, leaf) == Rotations(S, S.nodes[leaf].parent)
        Insert(p) == IF p.T.root = b2_nullNode THEN 0
                     ELSE Walk(LinkLeaf(p.T, p.id), p.id)
    IN Insert(NewLeaf(T, aabb, userData))

\* The rotations of the RemoveLeaf of DestroyProxy(leaf) on tree T.
DestroyRotations(T, leaf) ==
    LET parent == T.nodes[leaf].parent
    IN IF leaf = T.root THEN 0
       ELSE IF T.nodes[parent].parent = b2_nullNode THEN 0
       ELSE Rotations(UnlinkLeaf(T, leaf), T.nodes[parent].parent)

\* Trees T and U hold the same proxies: same leaves with the same fat AABB,
\* userData and moved flag, and as many nodes.
SameProxies(T, U) ==
    /\ LeavesBelow(U.nodes, U.root) = LeavesBelow(T.nodes, T.root)
    /\ \A i \in LeavesBelow(T.nodes, T.root) :
          /\ U.nodes[i].aabb = T.nodes[i].aabb
          /\ U.nodes[i].userData = T.nodes[i].userData
          /\ U.nodes[i].moved = T.nodes[i].moved
          /\ U.nodes[i].height = 0
    /\ U.nodeCount = T.nodeCount

\* The create-destroy round trip on tree T: the rotations it performs,
\* whether the tree is as before, whether the proxies are.
RoundTrip(T, aabb) ==
    LET Judge(c) ==
            LET Compare(V) ==
                    [rotations |-> CreateRotations(T, aabb, "Z")
                                     + DestroyRotations(c.T, c.id),
                     same |-> SameTree(T, V),
                     proxies |-> SameProxies(T, V)]
            IN Compare(Tree_DestroyProxy(c.T, c.id))
    IN Judge(Tree_CreateProxy(T, aabb, "Z"))

\* C11 amended: in every reachable tree, CreateProxy(a, u) immediately
\* followed by DestroyProxy of the returned id leaves the same proxies (leaf
\* ids, fat AABBs, userData, moved flags) and the same node count; root,
\* links, heights, AABBs and free-list order are as before the create
\* whenever Balance rotated no node during the two operations.
C11_CreateDestroyRoundTrip ==
    \A aabb \in TreeBoxes :
        LET r == RoundTrip(Tree, aabb)
        IN r.proxies /\ (r.rotations = 0 => r.same)

\* A tree of three proxies with a round trip that restores it exactly and
\* another that rotates and does not.
C11_Witness ==
    /\ m_proxyCount = 3
    /\ \E aabb \in TreeBoxes :
          /\ RoundTrip(Tree, aabb).rotations = 0
          /\ RoundTrip(Tree, aabb).same
    /\ \E aabb \in TreeBoxes :
          /\ RoundTrip(Tree, aabb).rotations > 0
          /\ ~RoundTrip(Tree, aabb).same

\* The live nodes that are not leaves.
InternalNodes(nodes) == {i \in LiveNodes(nodes) : nodes[i].child1 # b2_nullNode}

\* The live nodes that are leaves.
LeafNodes(nodes) == {i \in LiveNodes(nodes) : nodes[i].child1 = b2_nullNode}

\* The latest operation is a completed proxy operation of the tree.
ProxyOpDone == lastOp.op \in {"CreateProxy", "DestroyProxy", "MoveProxy"}

\* ---------------------------------------------------------------- C12
\* C12: after every completed CreateProxy, DestroyProxy or MoveProxy, the
\* aabb of every internal node is exactly the union of the aabbs of its two
\* children (min of lower bounds, max of upper bounds), and so contains the
\* AABB of every leaf below it.
C12_InternalAABBIsUnion ==
    ProxyOpDone =>
        \A i \in InternalNodes(m_nodes) :
            LET a == m_nodes[m_nodes[i].child1].aabb
                b == m_nodes[m_nodes[i].child2].aabb
            IN /\ m_nodes[i].aabb.lowerBound.x = b2Min(a.lowerBound.x, b.lowerBound.x)
               /\ m_nodes[i].aabb.lowerBound.y = b2Min(a.lowerBound.y, b.lowerBound.y)
               /\ m_nodes[i].aabb.upperBound.x = b2Max(a.upperBound.x, b.upperBound.x)
               /\ m_nodes[i].aabb.upperBound.y = b2Max(a.upperBound.y, b.upperBound.y)
               /\ \A l \in LeavesBelow(m_nodes, i) :
                     Contains(m_nodes[i].aabb, m_nodes[l].aabb)

\* A re-inserting MoveProxy in a tree of four proxies at three different
\* places, with a root of height 2 or more.
C12_Witness ==
    /\ lastOp.op = "MoveProxy"
    /\ lastOp.ret = TRUE
    /\ m_proxyCount = 4
    /\ m_nodes[m_root].height >= 2
    /\ Cardinality({m_nodes[l].aabb : l \in LeafNodes(m_nodes)}) = 3
    /\ Cardinality(InternalNodes(m_nodes)) = 3

\* ---------------------------------------------------------------- C13
\* C13: after every completed proxy operation, the height of every live
\* internal node is 1 + the larger of its children's heights, every leaf has
\* height 0 and every slot of the free list has height -1.
C13_HeightsAreExact ==
    ProxyOpDone =>
        /\ \A i \in InternalNodes(m_nodes) :
              m_nodes[i].height =
                  1 + b2Max(m_nodes[m_nodes[i].child1].height,
                            m_nodes[m_nodes[i].child2].height)
        /\ \A l \in LeavesBelow(m_nodes, m_root) : m_nodes[l].height = 0
        /\ \A l \in proxyIds : m_nodes[l].height = 0
        /\ \A f \in Entries(FreeChain(Tree)) : m_nodes[f].height = -1

\* A DestroyProxy in the grown pool that left eight proxies under a root of
\* height 3 or more, a freed slot still holding the children it had while it
\* was an internal node.
C13_Witness ==
    /\ lastOp.op = "DestroyProxy"
    /\ m_nodeCapacity = 2 * InitialNodeCapacity
    /\ m_proxyCount = GrowProxies - 1
    /\ m_nodes[m_root].height >= 3
    /\ \E f \in Entries(FreeChain(Tree)) :
          /\ m_nodes[f].height = -1
          /\ ~IsFresh(m_nodes[f])
          /\ m_nodes[f].child1 \in LiveNodes(m_nodes)

\* ---------------------------------------------------------------- C14
\* C14: in every state reachable by proxy operations, the empty tree and the
\* single leaf included, ComputeHeight() completes and returns the value
\* GetHeight() returns.
C14_ComputeHeightIsGetHeight ==
    \A o \in ComputeHeight(Tree) :
        o.completes /\ o.defined /\ o.height = GetHeight(Tree)

\* ---------------------------------------------------------------- C15
\* C15: after every completed proxy operation the root's parent is null;
\* every other live node's parent is a live internal node that has this node
\* as exactly one of child1 and child2; every live node has both children
\* null or both children non-null and distinct.
C15_LinksAreConsistent ==
    ProxyOpDone =>
        /\ m_root # b2_nullNode => m_nodes[m_root].parent = b2_nullNode
        /\ m_root # b2_nullNode => m_root \in LiveNodes(m_nodes)
        /\ \A i \in LiveNodes(m_nodes) \ {m_root} :
              LET parent == m_nodes[i].parent
              IN /\ parent \in InternalNodes(m_nodes)
                 /\ (m_nodes[parent].child1 = i) # (m_nodes[parent].child2 = i)
        /\ \A i \in LiveNodes(m_nodes) :
              \/ m_nodes[i].child1 = b2_nullNode /\ m_nodes[i].child2 = b2_nullNode
              \/ /\ m_nodes[i].child1 # b2_nullNode
                 /\ m_nodes[i].child2 # b2_nullNode
                 /\ m_nodes[i].child1 # m_nodes[i].child2

\* A re-inserting MoveProxy in a tree of three proxies: one leaf hangs
\* directly under the root, the two others under the root's other child.
C15_Witness ==
    /\ lastOp.op = "MoveProxy"
    /\ lastOp.ret = TRUE
    /\ m_proxyCount = 3
    /\ \E l \in LeafNodes(m_nodes) : m_nodes[l].parent = m_root
    /\ \E l, k \in LeafNodes(m_nodes) :
          /\ l # k
          /\ m_nodes[l].parent = m_nodes[k].parent
          /\ m_nodes[m_nodes[l].parent].parent = m_root

\* ---------------------------------------------------------------- C16
\* C16: after every completed proxy operation, following child pointers from
\* the root visits no node twice, and the nodes visited are exactly the pool
\* slots with height >= 0.
C16_TreeIsExactlyTheLiveSlots ==
    ProxyOpDone =>
        LET visited == Preorder(m_nodes, m_root, m_nodeCapacity + 1)
        IN /\ \A j, k \in 1 .. Len(visited) : visited[j] = visited[k] => j = k
           /\ Entries(visited) = LiveNodes(m_nodes)

\* A tree in the grown pool that uses slots of the old and of the new block,
\* after a proxy was destroyed.
C16_Witness ==
    /\ lastOp.op = "DestroyProxy"
    /\ m_nodeCapacity = 2 * InitialNodeCapacity
    /\ m_nodeCount = 2 * (GrowProxies - 1) - 1
    /\ \E i \in LiveNodes(m_nodes) : i >= InitialNodeCapacity
    /\ \E i \in FreeSlots(m_nodes) : i < InitialNodeCapacity

\* ---------------------------------------------------------------- C17
\* C17: in every reachable state the free list from m_freeList is a chain
\* that ends in null, repeats no slot and holds exactly the slots of height
\* -1, so that its length + m_nodeCount = m_nodeCapacity, and m_nodeCount =
\* m_nodeCapacity whenever the free list is empty.
C17_FreeListIsTheFreeSlots ==
    LET free == FreeChain(Tree)
    IN /\ Len(free) <= m_nodeCapacity
       /\ \A j, k \in 1 .. Len(free) : free[j] = free[k] => j = k
       /\ Entries(free) = FreeSlots(m_nodes)
       /\ DOMAIN m_nodes = 0 .. m_nodeCapacity - 1
       /\ \A i \in DOMAIN m_nodes : m_nodes[i].height >= -1
       /\ Len(free) + m_nodeCount = m_nodeCapacity
       /\ m_freeList = b2_nullNode => m_nodeCount = m_nodeCapacity
       /\ \* CreateProxy has taken the leaf; InsertLeaf is about to allocate.
          LET S == NewLeaf(Tree, Cell(0), "Z").T
          IN S.freeList = b2_nullNode => S.nodeCount = S.nodeCapacity

\* The pool has grown and a slot of the old block was freed and is the head
\* of the free list, in front of slots of the new block.
C17_Witness ==
    /\ m_nodeCapacity = 2 * InitialNodeCapacity
    /\ m_freeList # b2_nullNode
    /\ m_freeList < InitialNodeCapacity
    /\ \E f \in Entries(FreeChain(Tree)) : f >= InitialNodeCapacity
    /\ m_nodeCount < InitialNodeCapacity

\* ---------------------------------------------------------------- C18
\* C18: in every step, every proxy that is live before and after it is still
\* a leaf of height 0 below the root and carries the userData it carried
\* before (steps on other proxies, moves of the proxy itself, rotations and
\* pool growth included); a CreateProxy step returns a slot that was neither
\* a live proxy nor a live internal node, and leaves the given userData in it.
C18_ProxySlotIsStable ==
    [][/\ \A p \in proxyIds \cap proxyIds' :
             /\ IsLeaf(m_nodes'[p])
             /\ m_nodes'[p].height = 0
             /\ m_nodes'[p].userData = m_nodes[p].userData
             /\ p \in LeavesBelow(m_nodes', m_root')
       /\ lastOp'.op = "CreateProxy" =>
             /\ lastOp'.id \notin proxyIds
             /\ lastOp'.id \notin LiveNodes(m_nodes)
             /\ lastOp'.id \in proxyIds'
             /\ m_nodes'[lastOp'.id].userData = lastOp'.userData]_vars

\* In the grown pool a proxy of the first create was moved and re-inserted,
\* next to a proxy created in a slot that a destroyed proxy had left.
C18_Witness ==
    /\ lastOp.op = "MoveProxy"
    /\ lastOp.ret = TRUE
    /\ m_nodeCapacity = 2 * InitialNodeCapacity
    /\ m_proxyCount = GrowProxies
    /\ m_nodes[lastOp.id].userData = TreeUserData[1]
    /\ \E i \in InternalNodes(m_nodes) : i >= InitialNodeCapacity
    /\ \E p \in proxyIds : m_nodes[p].userData = TreeUserData[GrowProxies + 1]

\* ---------------------------------------------------------------- C19
\* C19: BroadPhase.CreateProxy(aabb, userData) returns an id whose leaf
\* stores [aabb.lower - extension, aabb.upper + extension], the userData,
\* height 0 and moved = true; the id is the last entry of the move buffer
\* and the proxy count has grown by one.
C19_CreateProxyPostcondition ==
    [][lastOp'.op = "CreateProxy" =>
         LET id == lastOp'.id
             aabb == lastOp'.aabb
         IN /\ m_nodes'[id].aabb.lowerBound.x = aabb.lowerBound.x - b2_aabbExtension
            /\ m_nodes'[id].aabb.lowerBound.y = aabb.lowerBound.y - b2_aabbExtension
            /\ m_nodes'[id].aabb.upperBound.x = aabb.upperBound.x + b2_aabbExtension
            /\ m_nodes'[id].aabb.upperBound.y = aabb.upperBound.y + b2_aabbExtension
            /\ m_nodes'[id].userData = lastOp'.userData
            /\ m_nodes'[id].height = 0
            /\ IsLeaf(m_nodes'[id])
            /\ m_nodes'[id].moved = TRUE
            /\ m_moveCount' = m_moveCount + 1
            /\ Len(m_moveBuffer') = m_moveCount'
            /\ m_moveBuffer'[m_moveCount'] = id
            /\ m_proxyCount' = m_proxyCount + 1]_vars

\* A proxy was created at the third cell, next to another proxy, after a
\* destroy had left a null entry in the move buffer.
C19_Witness ==
    /\ lastOp.op = "CreateProxy"
    /\ m_proxyCount = 2
    /\ lastOp.aabb = Cell(2)
    /\ m_nodes[lastOp.id].aabb = AABB(590, -10, 710, 110)
    /\ e_nullProxy \in Entries(m_moveBuffer)
    /\ m_moveBuffer[m_moveCount] = lastOp.id

\* ---------------------------------------------------------------- C20
\* The move buffer holds proxyId as an entry.
Buffered(moveBuffer, proxyId) == proxyId \in Entries(moveBuffer) \ {e_nullProxy}

\* C20 as stated: between operations a live leaf's moved flag is true if and
\* only if its id is a non-null entry of the move buffer.
C20_Original ==
    \A p \in proxyIds : m_nodes[p].moved <=> Buffered(m_moveBuffer, p)

\* C20: between operations a live leaf whose moved flag is true is a non-null
\* entry of the move buffer; a live leaf in the move buffer has its flag
\* true unless TouchProxy put it there while the flag was false and no
\* CreateProxy or re-inserting MoveProxy has set the flag since.
C20_MovedFlagAndMoveBuffer ==
    [][\A p \in proxyIds' :
          /\ m_nodes'[p].moved => Buffered(m_moveBuffer', p)
          /\ (Buffered(m_moveBuffer', p) /\ ~m_nodes'[p].moved) =>
                \/ lastOp'.op = "TouchProxy" /\ lastOp'.id = p
                \/ /\ p \in proxyIds
                   /\ Buffered(m_moveBuffer, p)
                   /\ ~m_nodes[p].moved]_vars

\* TouchProxy queued a proxy whose flag UpdatePairs had cleared, next to a
\* proxy that is in the buffer with its flag set.
C20_Witness ==
    /\ lastOp.op = "TouchProxy"
    /\ Buffered(m_moveBuffer, lastOp.id)
    /\ ~m_nodes[lastOp.id].moved
    /\ \E q \in proxyIds : m_nodes[q].moved /\ Buffered(m_moveBuffer, q)


\* ---------------------------------------------------------------- C21
\* C21: every pair UpdatePairs wrote to the pair buffer has proxyIdA <
\* proxyIdB (a proxy is never paired with itself), and the AddPair call for
\* it received the userData of proxyIdA first, that of proxyIdB second.
C21_PairsAreOrdered ==
    Updated =>
        /\ Len(m_pairBuffer) = m_pairCount
        /\ Len(addPairCalls) = m_pairCount
        /\ \A i \in 1 .. m_pairCount :
              /\ m_pairBuffer[i].proxyIdA < m_pairBuffer[i].proxyIdB
              /\ addPairCalls[i] =
                    [userDataA |-> m_nodes[m_pairBuffer[i].proxyIdA].userData,
                     userDataB |-> m_nodes[m_pairBuffer[i].proxyIdB].userData]

\* The only buffered proxy had the larger id: its query found proxy 0 and the
\* pair was stored and reported with proxy 0 first.
C21_Witness ==
    /\ Updated
    /\ lastOp.moves = <<1>>
    /\ m_pairBuffer = << [proxyIdA |-> 0, proxyIdB |-> 1] >>
    /\ m_nodes[0].userData # m_nodes[1].userData
    /\ addPairCalls = << [userDataA |-> m_nodes[0].userData,
                          userDataB |-> m_nodes[1].userData] >>


\* ---------------------------------------------------------------- C22
\* C22: DestroyProxy(id) replaces every move-buffer entry equal to id by the
\* null sentinel and leaves the move count and the other entries as they
\* were; and after every step each non-null move-buffer entry is the id of a
\* live proxy, a leaf of the tree.
C22_MoveBufferHoldsLiveProxies ==
    [][/\ lastOp'.op = "DestroyProxy" =>
             /\ lastOp'.id \notin Entries(m_moveBuffer')
             /\ m_moveCount' = m_moveCount
             /\ Len(m_moveBuffer') = Len(m_moveBuffer)
             /\ \A i \in 1 .. Len(m_moveBuffer) :
                   m_moveBuffer'[i] = IF m_moveBuffer[i] = lastOp'.id
                                      THEN e_nullProxy ELSE m_moveBuffer[i]
       /\ \A e \in Entries(m_moveBuffer') \ {e_nullProxy} :
             /\ e \in proxyIds'
             /\ e \in LeavesBelow(m_nodes', m_root')
             /\ m_nodes'[e].height = 0]_vars

\* A proxy that was in the move buffer twice was destroyed: both entries are
\* null and the entry of the other proxy is still there.
C22_Witness ==
    /\ lastOp.op = "DestroyProxy"
    /\ m_moveCount = 3
    /\ Occurrences(m_moveBuffer, e_nullProxy) = 2
    /\ \E p \in proxyIds : Occurrences(m_moveBuffer, p) = 1


\* ---------------------------------------------------------------- C23
\* C23: a DestroyProxy or MoveProxy call whose id is out of range or names a
\* freed slot is stopped by an assertion, and the tree is then as it was
\* before the call.
C23_InvalidIdRejected ==
    [][lastOp'.prev = "invalid id" =>
          /\ lastOp'.op = "b2Assert"
          /\ UNCHANGED treeVars]_lastOp


\* ---------------------------------------------------------------- C24
\* C24: Free(p) goes through only when there is an entry and p is the data
\* pointer of the top entry, Allocate only when m_entryCount < 32; any other
\* call fails its assertion and changes nothing. So m_entryCount stays
\* within 0 .. 32, an Allocate adds its entry on top, and a Free releases
\* the entry allocated last among those outstanding.
C24_StackDiscipline ==
    [][/\ stackOp'.op = "Free" =>
             /\ m_entryCount > 0
             /\ stackOp'.p = m_entries[m_entryCount].data
             /\ m_entries' = SubSeq(m_entries, 1, m_entryCount - 1)
             /\ m_entryCount' = m_entryCount - 1
       /\ stackOp'.op = "Allocate" =>
             /\ m_entryCount < b2_maxStackEntries
             /\ SubSeq(m_entries', 1, m_entryCount) = m_entries
             /\ m_entryCount' = m_entryCount + 1
             /\ m_entries'[m_entryCount'].data = stackOp'.p
             /\ m_entries'[m_entryCount'].size = stackOp'.size
       /\ (stackOp'.call = "Free"
             /\ (m_entryCount = 0 \/ stackOp'.p # m_entries[m_entryCount].data))
             => (stackOp'.op = "b2Assert" /\ UNCHANGED Stack)
       /\ (stackOp'.call = "Allocate" /\ m_entryCount >= b2_maxStackEntries)
             => (stackOp'.op = "b2Assert" /\ UNCHANGED Stack)
       /\ m_entryCount' \in 0 .. b2_maxStackEntries
       /\ Len(m_entries') = m_entryCount']_vars

\* With all 32 entries in use a further Allocate was stopped by the
\* assertion.
C24_Witness ==
    /\ stackOp.op = "b2Assert"
    /\ stackOp.call = "Allocate"
    /\ m_entryCount = b2_maxStackEntries
    /\ Len(m_entries) = b2_maxStackEntries
    /\ \E i \in 1 .. m_entryCount : m_entries[i].usedMalloc

\* ---------------------------------------------------------------- C25
\* The total size of the entries that lie in the arena.
RECURSIVE ArenaBytes(_)
ArenaBytes(entries) ==
    IF entries = <<>> THEN 0
    ELSE (IF entries[Len(entries)].usedMalloc THEN 0 ELSE entries[Len(entries)].size)
           + ArenaBytes(SubSeq(entries, 1, Len(entries) - 1))

\* C25: Allocate(size) with m_index + size > b2_stackSize marks the entry as
\* heap-allocated and leaves m_index alone, otherwise it returns the arena
\* place m_index and advances m_index by size; Free rewinds m_index by the
\* entry's size exactly when the entry is not heap-allocated. m_index never
\* exceeds b2_stackSize: it is the total size of the arena entries.
C25_ArenaOrHeap ==
    [][/\ stackOp'.op = "Allocate" =>
             LET entry == m_entries'[m_entryCount']
             IN IF m_index + stackOp'.size > b2_stackSize
                THEN /\ entry.usedMalloc
                     /\ stackOp'.p.heap
                     /\ m_index' = m_index
                ELSE /\ ~entry.usedMalloc
                     /\ stackOp'.p = ArenaPtr(m_index)
                     /\ m_index' = m_index + stackOp'.size
       /\ stackOp'.op = "Free" =>
             LET entry == m_entries[m_entryCount]
             IN m_index' = IF entry.usedMalloc THEN m_index ELSE m_index - entry.size
       /\ m_index' <= b2_stackSize
       /\ m_index' = ArenaBytes(m_entries')]_vars

\* Two entries fill the arena to the last byte; a third went to the heap and
\* was freed again, with m_index where it was.
C25_Witness ==
    /\ stackOp.op = "Free"
    /\ stackOp.p.heap
    /\ m_entryCount = 2
    /\ ~m_entries[1].usedMalloc
    /\ ~m_entries[2].usedMalloc
    /\ m_index = b2_stackSize

\* ---------------------------------------------------------------- C26
\* C26: GetMaxAllocation() never decreases over Allocate and Free, and is
\* always the largest total size of outstanding allocations, arena and heap
\* entries together, reached since construction.
C26_MaxAllocationIsPeak ==
    [][/\ Stack_GetMaxAllocation(Stack)' >= Stack_GetMaxAllocation(Stack)
       /\ Stack_GetMaxAllocation(Stack)' = stackPeak'
       /\ stackPeak' >= Outstanding(m_entries')]_vars

\* A heap entry was freed: the peak, which counted it, is above the current
\* total, itself above zero.
C26_Witness ==
    /\ stackOp.op = "Free"
    /\ m_entryCount = 1
    /\ stackOp.p.heap
    /\ m_allocation = 40000
    /\ m_maxAllocation = 40000 + 70000
    /\ stackPeak = m_maxAllocation

\* ---------------------------------------------------------------- C30
\* C30: every pair UpdatePairs reports is made of two different live proxies
\* whose fat AABBs overlap at the time of the call, at least one of them a
\* non-null entry of the move buffer the call consumed; so no pair of
\* proxies that do not overlap is reported, and no destroyed proxy.
C30_PairsAreLiveOverlappingAndMoved ==
    Updated =>
        \A i \in 1 .. Len(m_pairBuffer) :
            LET a == m_pairBuffer[i].proxyIdA
                b == m_pairBuffer[i].proxyIdB
            IN /\ a \in proxyIds
               /\ b \in proxyIds
               /\ a # b
               /\ IsLeaf(m_nodes[a]) /\ IsLeaf(m_nodes[b])
               /\ b2TestOverlap(m_nodes[a].aabb, m_nodes[b].aabb)
               /\ \/ a \in Entries(lastOp.moves) \ {e_nullProxy}
                  \/ b \in Entries(lastOp.moves) \ {e_nullProxy}

\* The move buffer held the tombstone of a destroyed proxy and the id of the
\* proxy created in its slot; the pair of that proxy with the stationary
\* proxy it overlaps is reported.
C30_Witness ==
    /\ Updated
    /\ lastOp.moves = <<e_nullProxy, 0>>
    /\ m_pairBuffer = << [proxyIdA |-> 0, proxyIdB |-> 1] >>
    /\ Len(addPairCalls) = 1


\* ------------------------------------------------------------ ray casts
RayCastDone == lastOp.op = "RayCast"
CalledProxies == {rayCastOp.calls[i].proxyId : i \in 1 .. Len(rayCastOp.calls)}
PointInAABB(aabb, p) ==
    /\ aabb.lowerBound.x <= p.x /\ p.x <= aabb.upperBound.x
    /\ aabb.lowerBound.y <= p.y /\ p.y <= aabb.upperBound.y
ProxiesAround(p) == {a \in proxyIds : PointInAABB(m_nodes[a].aabb, p)}

\* C27 as stated: a RayCast with maxFraction = 0 invokes RayCastCallback for
\* no leaf, whatever the tree and the points p1 and p2.
C27_Original ==
    (RayCastDone /\ rayCastOp.input.maxFraction = 0) => rayCastOp.calls = <<>>

\* C27: a RayCast with maxFraction = 0 invokes RayCastCallback only for
\* proxies whose fat AABB contains p1, each with maxFraction 0 in the
\* sub-input; with a callback that ignores every proxy it is invoked for
\* each of them once, and for none when p1 lies in no fat AABB.
C27_ZeroRayVisitsLeavesAroundP1 ==
    (RayCastDone /\ rayCastOp.input.maxFraction = 0) =>
        /\ CalledProxies \subseteq ProxiesAround(rayCastOp.input.p1)
        /\ \A i \in 1 .. Len(rayCastOp.calls) : rayCastOp.calls[i].maxFraction = 0
        /\ rayCastOp.callback = "ignore" =>
              /\ CalledProxies = ProxiesAround(rayCastOp.input.p1)
              /\ Len(rayCastOp.calls) = Cardinality(CalledProxies)

\* A ray of maxFraction 0 is cast from inside the fat AABBs of two proxies
\* and the callback is invoked for both.
C27_Witness ==
    /\ RayCastDone
    /\ rayCastOp.input.maxFraction = 0
    /\ rayCastOp.callback = "ignore"
    /\ Len(rayCastOp.calls) = 2
    /\ m_proxyCount = 3

\* The fraction at which the cast ray enters proxy a's fat AABB, -1 if it
\* does not within input.maxFraction.
EntryFraction(a) == AABB_RayCast(m_nodes[a].aabb, rayCastOp.input)
DisjointProxies ==
    \A a, b \in proxyIds : a # b => ~b2TestOverlap(m_nodes[a].aabb, m_nodes[b].aabb)
ClippingCastDone ==
    RayCastDone /\ rayCastOp.callback = "clip" /\ DisjointProxies
CallIds == [i \in 1 .. Len(rayCastOp.calls) |-> rayCastOp.calls[i].proxyId]

\* The smallest positive value the callback returned before call i, the
\* input's maxFraction if none.
RECURSIVE ClipBefore(_)
ClipBefore(i) ==
    IF i = 1 THEN rayCastOp.input.maxFraction
    ELSE IF rayCastOp.calls[i - 1].value > 0
         THEN rayCastOp.calls[i - 1].value
         ELSE ClipBefore(i - 1)

\* C28 as stated: when a ray is cast through disjoint boxes and the callback
\* returns the hit fraction, the callbacks come in order of increasing
\* distance from p1 and maxFraction does not increase between them.
C28_Original ==
    ClippingCastDone =>
        \A i, j \in 1 .. Len(rayCastOp.calls) :
            i < j => /\ EntryFraction(CallIds[i]) <= EntryFraction(CallIds[j])
                     /\ rayCastOp.calls[j].maxFraction <= rayCastOp.calls[i].maxFraction

\* C28: when a ray is cast through disjoint boxes and the callback returns
\* the hit fraction, the callbacks need not come in order of distance from
\* p1, but each comes for a box the ray enters no later than every hit
\* reported before it; maxFraction does not increase between callbacks and is
\* the latest hit fraction returned; the nearest box within the input's
\* maxFraction is among those called. This holds for either order of pushing
\* the two children.
C28_ClippingNarrowsTheRay ==
    ClippingCastDone =>
        /\ \A i \in 1 .. Len(rayCastOp.calls) :
              /\ rayCastOp.calls[i].maxFraction = ClipBefore(i)
              /\ rayCastOp.calls[i].value <= rayCastOp.calls[i].maxFraction
              /\ rayCastOp.calls[i].value = EntryFraction(CallIds[i])
        /\ \A i, j \in 1 .. Len(rayCastOp.calls) :
              i < j => rayCastOp.calls[j].maxFraction <= rayCastOp.calls[i].maxFraction
        /\ \A a \in proxyIds :
              (/\ EntryFraction(a) >= 0
               /\ \A b \in proxyIds : EntryFraction(b) >= 0 =>
                                           EntryFraction(a) <= EntryFraction(b))
              => a \in CalledProxies

\* The whole ray along the row is cast through three disjoint boxes, all
\* three in its way; the callback is invoked for a farther box first and then
\* for a nearer one, with a smaller maxFraction.
C28_Witness ==
    /\ ClippingCastDone
    /\ m_proxyCount = 3
    /\ \A a \in proxyIds : EntryFraction(a) > 0
    /\ rayCastOp.input.maxFraction = FractionUnit
    /\ \E i, j \in 1 .. Len(rayCastOp.calls) :
          /\ i < j
          /\ rayCastOp.calls[j].value > 0
          /\ rayCastOp.calls[j].value < rayCastOp.calls[i].value
          /\ rayCastOp.calls[j].maxFraction < rayCastOp.calls[i].maxFraction

\* ------------------------------------------------------- block allocator
LiveBlocksBefore == {blockLive[i].p : i \in 1 .. Len(blockLive) - 1}
SameSizeClass(size1, size2) ==
    /\ size1 <= b2_maxBlockSize
    /\ size2 <= b2_maxBlockSize
    /\ SizeClass(size1) = SizeClass(size2)

\* C29: for sizes up to the largest block size, an Allocate that follows a
\* Free(p, size) of the same size class returns p; and no Allocate, of any
\* size class or of the system heap, returns a block that is allocated and
\* not yet freed: the outstanding blocks are all different.
C29_LifoReuseAndNoDoubleAllocation ==
    /\ (/\ blockOp.op = "Allocate"
        /\ blockOp.prev.op = "Free"
        /\ SameSizeClass(blockOp.size, blockOp.prev.size)) => blockOp.p = blockOp.prev.p
    /\ blockOp.op = "Allocate" =>
          /\ blockLive[Len(blockLive)].p = blockOp.p
          /\ blockOp.p \notin LiveBlocksBefore
    /\ \A i, j \in 1 .. Len(blockLive) : i # j => blockLive[i].p # blockLive[j].p

\* A block allocated with size 600 is freed while a block of another class
\* is outstanding, and the next Allocate, of size 640, returns it.
C29_Witness ==
    /\ blockOp.op = "Allocate"
    /\ blockOp.size = b2_maxBlockSize
    /\ blockOp.prev.op = "Free"
    /\ blockOp.prev.size = 600
    /\ blockOp.p = blockOp.prev.p
    /\ Len(m_chunks) = 2
    /\ \E i \in 1 .. Len(blockLive) : blockLive[i].size = 500

\* ---------------------------------------------------------------- C31
\* C31: when UpdatePairs returns the move count is 0 and the moved flag of
\* every live proxy is false; the call changes nothing else of the tree
\* (root, free list, node count, capacity, and of every node its links,
\* height, aabb and userData) and leaves the proxy count as it was.
C31_UpdatePairsFrame ==
    [][lastOp'.op = "UpdatePairs" =>
          /\ m_moveCount' = 0
          /\ m_moveBuffer' = <<>>
          /\ \A p \in proxyIds' : ~m_nodes'[p].moved
          /\ proxyIds' = proxyIds
          /\ m_proxyCount' = m_proxyCount
          /\ <<m_root, m_freeList, m_nodeCount, m_nodeCapacity>>' =
                <<m_root, m_freeList, m_nodeCount, m_nodeCapacity>>
          /\ DOMAIN m_nodes' = DOMAIN m_nodes
          /\ \A i \in DOMAIN m_nodes :
                [m_nodes'[i] EXCEPT !.moved = FALSE] = [m_nodes[i] EXCEPT !.moved = FALSE]]_vars

\* UpdatePairs consumed a move buffer with a tombstone in front of the entry
\* of a proxy whose moved flag was set, next to a second live proxy.
C31_Witness ==
    /\ Updated
    /\ Len(lastOp.moves) >= 2
    /\ lastOp.moves[1] = e_nullProxy
    /\ lastOp.moved # {}
    /\ m_proxyCount = 2
    /\ m_moveCount = 0
    /\ \A p \in proxyIds : ~m_nodes[p].moved

\* ------------------------------------------------------- Balance calls
\* The Balance calls of the upward walk from index on tree T, in order: each
\* with the tree it is made on and its argument.
RECURSIVE BalanceCalls(_, _)
BalanceCalls(T, index) ==
    IF index = b2_nullNode THEN <<>>
    ELSE
      LET Rest(w) == BalanceCalls(w.T, w.T.nodes[w.id].parent)
      IN <<[T |-> T, iA |-> index]>> \o Rest(WalkStep(T, index))

\* The Balance calls of the InsertLeaf of CreateProxy(aabb, userData) on T.
CreateBalanceCalls(T, aabb, userData) ==
    LET Walk(S, leaf) == BalanceCalls(S, S.nodes[leaf].parent)
        Insert(p) == IF p.T.root = b2_nullNode THEN <<>>
                     ELSE Walk(LinkLeaf(p.T, p.id), p.id)
    IN Insert(NewLeaf(T, aabb, userData))

\* The Balance calls of the RemoveLeaf of DestroyProxy(leaf) on T.
DestroyBalanceCalls(T, leaf) ==
    LET parent == T.nodes[leaf].parent
    IN IF leaf = T.root THEN <<>>
       ELSE IF T.nodes[parent].parent = b2_nullNode THEN <<>>
       ELSE BalanceCalls(UnlinkLeaf(T, leaf), T.nodes[parent].parent)

\* P(T, iA) holds of every Balance call the next CreateProxy or DestroyProxy
\* makes on the current tree.
EveryCall(calls, P(_, _)) == \A k \in 1 .. Len(calls) : P(calls[k].T, calls[k].iA)
SomeCall(calls, P(_, _)) == \E k \in 1 .. Len(calls) : P(calls[k].T, calls[k].iA)
EveryNextBalanceCall(P(_, _)) ==
    /\ \A aabb \in GrowBoxes :
          EveryCall(CreateBalanceCalls(Tree, aabb, "Z"), P)
    /\ \A leaf \in proxyIds : EveryCall(DestroyBalanceCalls(Tree, leaf), P)
SomeNextBalanceCall(P(_, _)) ==
    \/ \E aabb \in GrowBoxes :
          SomeCall(CreateBalanceCalls(Tree, aabb, "Z"), P)
    \/ \E leaf \in proxyIds : SomeCall(DestroyBalanceCalls(Tree, leaf), P)

\* Balance has nothing to do at iA: a leaf, a stored height below 2, or
\* children whose heights differ by at most 1.
BalanceIsNoOp(T, iA) ==
    \/ IsLeaf(T.nodes[iA])
    \/ T.nodes[iA].height < 2
    \/ b2Abs(T.nodes[T.nodes[iA].child2].height - T.nodes[T.nodes[iA].child1].height) <= 1

\* The child of iA that Balance promotes: the taller one.
TallerChild(T, iA) ==
    IF T.nodes[T.nodes[iA].child2].height > T.nodes[T.nodes[iA].child1].height
    THEN T.nodes[iA].child2 ELSE T.nodes[iA].child1
OtherChild(T, iA) ==
    IF TallerChild(T, iA) = T.nodes[iA].child2 THEN T.nodes[iA].child1
    ELSE T.nodes[iA].child2

\* Trees T and U are the same pool, slot by slot.
IdenticalTrees(T, U) ==
    /\ U.root = T.root
    /\ U.freeList = T.freeList
    /\ U.nodeCount = T.nodeCount
    /\ U.nodeCapacity = T.nodeCapacity
    /\ \A i \in 0 .. T.nodeCapacity - 1 : U.nodes[i] = T.nodes[i]

\* What a rotation at iA must leave, from tree T to tree U with iP promoted,
\* iO the child A keeps, hi the grandchild that stays and lo the one handed
\* to A.
RotatedAs(T, U, iA, iP, iO, hi, lo) ==
    LET old == T.nodes[iA].parent
    IN /\ U.nodes[iP].parent = old
       /\ IF old = b2_nullNode THEN U.root = iP
          ELSE /\ U.root = T.root
               /\ IF T.nodes[old].child1 = iA
                  THEN U.nodes[old] = [T.nodes[old] EXCEPT !.child1 = iP]
                  ELSE U.nodes[old] = [T.nodes[old] EXCEPT !.child2 = iP]
       /\ U.nodes[iP].child1 = iA
       /\ U.nodes[iP].child2 = hi
       /\ U.nodes[iA].parent = iP
       /\ {U.nodes[iA].child1, U.nodes[iA].child2} = {iO, lo}
       /\ (U.nodes[iA].child1 = iO) = (T.nodes[iA].child1 = iO)
       /\ U.nodes[lo] = [T.nodes[lo] EXCEPT !.parent = iA]
       /\ U.nodes[hi] = T.nodes[hi]
       /\ U.nodes[iO] = T.nodes[iO]
       /\ U.nodes[iA].aabb = Combine(T.nodes[iO].aabb, T.nodes[lo].aabb)
       /\ U.nodes[iA].height = 1 + b2Max(T.nodes[iO].height, T.nodes[lo].height)
       /\ U.nodes[iP].aabb = Combine(U.nodes[iA].aabb, T.nodes[hi].aabb)
       /\ U.nodes[iP].height = 1 + b2Max(U.nodes[iA].height, T.nodes[hi].height)
       /\ U.freeList = T.freeList
       /\ U.nodeCount = T.nodeCount
       /\ U.nodeCapacity = T.nodeCapacity
       /\ \A i \in (0 .. T.nodeCapacity - 1) \ {iA, iP, lo, old} :
             U.nodes[i] = T.nodes[i]

BalanceAsSpecified(T, iA) ==
    LET Result(r) ==
            IF BalanceIsNoOp(T, iA) THEN r.id = iA /\ IdenticalTrees(T, r.T)
            ELSE LET iP == TallerChild(T, iA)
                     first == T.nodes[iP].child1
                     second == T.nodes[iP].child2
                     firstStays == T.nodes[first].height > T.nodes[second].height
                 IN /\ r.id = iP
                    /\ RotatedAs(T, r.T, iA, iP, OtherChild(T, iA),
                                 IF firstStays THEN first ELSE second,
                                 IF firstStays THEN second ELSE first)
    IN Result(Balance(T, iA))

\* ---------------------------------------------------------------- C32
\* C32: Balance(A) returns A and leaves the tree as it is when A is a leaf,
\* A.height < 2 or the heights of A's children differ by at most 1. Otherwise
\* it returns the taller child, put in A's place under A's old parent (or as
\* the root) with A as its child1; the taller grandchild stays as its child2
\* (the second one on a tie) and the other takes the promoted child's place
\* under A; aabb and height of A and then of the promoted node are those of
\* their new children. Stated of every Balance call the next CreateProxy or
\* DestroyProxy makes.
C32_BalanceRotation == EveryNextBalanceCall(BalanceAsSpecified)

\* Balance rotates at iA and the grandchildren under the promoted child are
\* of equal height.
RotatesOnTie(T, iA) ==
    /\ ~BalanceIsNoOp(T, iA)
    /\ Balance(T, iA).id = TallerChild(T, iA)
    /\ T.nodes[T.nodes[TallerChild(T, iA)].child1].height
         = T.nodes[T.nodes[TallerChild(T, iA)].child2].height
\* Balance promotes the first child of iA, which is not the root.
RotatesFirstChildUp(T, iA) ==
    /\ ~BalanceIsNoOp(T, iA)
    /\ Balance(T, iA).id = T.nodes[iA].child1
    /\ T.nodes[iA].parent # b2_nullNode

\* The next operation on the tree makes a Balance call that rotates on a
\* height tie of the grandchildren, and one that promotes a first child
\* below the root.
C32_Witness ==
    /\ ProxyOpDone
    /\ SomeNextBalanceCall(RotatesOnTie)
    /\ SomeNextBalanceCall(RotatesFirstChildUp)

\* ---------------------------------------------------------------- C33
\* The height of the subtree below node i, counted from its leaves.
RECURSIVE TrueHeight(_, _)
TrueHeight(nodes, i) ==
    IF nodes[i].child1 = b2_nullNode THEN 0
    ELSE 1 + b2Max(TrueHeight(nodes, nodes[i].child1),
                   TrueHeight(nodes, nodes[i].child2))

BalanceKeepsHeightAndLeaves(T, iA) ==
    LET Result(r, w) ==
            /\ TrueHeight(r.T.nodes, r.id) <= TrueHeight(T.nodes, iA)
            /\ r.id # iA => r.T.nodes[r.id].height = TrueHeight(r.T.nodes, r.id)
            /\ w.id = r.id
            /\ w.T.nodes[w.id].height = TrueHeight(r.T.nodes, r.id)
            /\ LeavesBelow(r.T.nodes, r.id) = LeavesBelow(T.nodes, iA)
    IN Result(Balance(T, iA), WalkStep(T, iA))

\* C33: Balance(A) does not increase the height of the subtree it is applied
\* to: the subtree below the node it returns is no higher than the subtree
\* below A was, and the height recomputed for that node (by the rotation,
\* and by the step of the walk that follows the call) is that height; the
\* leaves below the returned node are the leaves that were below A. Stated
\* of every Balance call the next CreateProxy or DestroyProxy makes.
C33_BalanceKeepsHeightAndLeaves == EveryNextBalanceCall(BalanceKeepsHeightAndLeaves)

\* Balance rotates at a node whose subtree gets lower by it.
RotationLowers(T, iA) ==
    /\ Balance(T, iA).id # iA
    /\ TrueHeight(Balance(T, iA).T.nodes, Balance(T, iA).id) < TrueHeight(T.nodes, iA)
    /\ Cardinality(LeavesBelow(T.nodes, iA)) >= 4

\* The next operation makes a Balance call whose rotation lowers a subtree
\* of at least four leaves.
C33_Witness ==
    /\ ProxyOpDone
    /\ SomeNextBalanceCall(RotationLowers)

\* ---------------------------------------------------------------- C34
\* The proxy count, the leaves under the root and the node count agree.
CountsAgree(proxyCount, nodes, root, nodeCount) ==
    /\ proxyCount = Cardinality(LeavesBelow(nodes, root))
    /\ nodeCount = IF proxyCount = 0 THEN 0 ELSE 2 * proxyCount - 1
    /\ nodeCount = Cardinality(LiveNodes(nodes))

\* C34: in every state m_proxyCount is the number of leaves reachable from
\* the root, and the number of live nodes is 0 when there is no proxy and
\* 2 * m_proxyCount - 1 otherwise; CreateProxy adds 1 to m_proxyCount,
\* DestroyProxy takes 1 off and no other operation changes it; MoveProxy
\* leaves the node count and the capacity of the pool as they were.
C34_ProxyAndNodeCounts ==
    [][/\ CountsAgree(m_proxyCount, m_nodes, m_root, m_nodeCount)
       /\ CountsAgree(m_proxyCount', m_nodes', m_root', m_nodeCount')
       /\ m_proxyCount' = m_proxyCount + (IF lastOp'.op = "CreateProxy" THEN 1
                                          ELSE IF lastOp'.op = "DestroyProxy" THEN -1
                                          ELSE 0)
       /\ lastOp'.op = "MoveProxy" =>
             /\ m_nodeCount' = m_nodeCount
             /\ m_nodeCapacity' = m_nodeCapacity]_vars

\* A MoveProxy re-inserted a leaf of a tree of nine proxies in the grown
\* pool: 17 live nodes of 32 before and after.
C34_Witness ==
    /\ lastOp.op = "MoveProxy"
    /\ lastOp.ret
    /\ m_proxyCount = GrowProxies
    /\ m_nodeCount = 2 * GrowProxies - 1
    /\ m_nodeCapacity = 2 * InitialNodeCapacity
    /\ Cardinality(LeavesBelow(m_nodes, m_root)) = GrowProxies

\* ---------------------------------------------------------------- C35
\* The latest operation supplied an AABB for proxy p.
Supplies(op, p) == op.op \in {"CreateProxy", "MoveProxy"} /\ op.id = p

\* C35: the fat AABB stored for a live proxy contains the AABB most recently
\* supplied for it. Step by step: after a CreateProxy or a MoveProxy,
\* whatever MoveProxy returned, the proxy's fat AABB contains the AABB of
\* the call; and no operation changes the fat AABB of a live proxy it
\* supplied no AABB for.
C35_FatAABBContainsSupplied ==
    [][/\ \A p \in proxyIds' :
             Supplies(lastOp', p) => Contains(m_nodes'[p].aabb, lastOp'.aabb)
       /\ \A p \in proxyIds \cap proxyIds' :
             ~Supplies(lastOp', p) => m_nodes'[p].aabb = m_nodes[p].aabb]_vars

\* MoveProxy returned false for an AABB other than the one the fat AABB was
\* made from, with a second proxy in the tree.
C35_Witness ==
    /\ lastOp.op = "MoveProxy"
    /\ ~lastOp.ret
    /\ m_proxyCount = 2
    /\ m_nodes[lastOp.id].aabb # Fatten(lastOp.aabb)
    /\ Contains(m_nodes[lastOp.id].aabb, lastOp.aabb)


\* ---------------------------------------------------------------- C36
\* The root of tree T is the null node of a tree without live nodes, or a live
\* slot of the pool without a parent.
ValidRoot(T) ==
    LET Pool == 0 .. T.nodeCapacity - 1
    IN IF \A i \in Pool : T.nodes[i].height < 0 THEN T.root = b2_nullNode
       ELSE /\ T.root \in Pool
            /\ T.nodes[T.root].height >= 0
            /\ T.nodes[T.root].parent = b2_nullNode

\* Tree T satisfies the invariants of links (C15, C16), heights (C13), AABB
\* unions (C12) and the free list (C17).
ValidTree(T) ==
    LET Pool == 0 .. T.nodeCapacity - 1
        Live == {i \in Pool : T.nodes[i].height >= 0}
        Internal == {i \in Live : T.nodes[i].child1 # b2_nullNode}
        visited == Preorder(T.nodes, T.root, T.nodeCapacity + 1)
        free == FreeChain(T)
    IN /\ \A i \in Live \ {T.root} :
             /\ T.nodes[i].parent \in Internal
             /\ (T.nodes[T.nodes[i].parent].child1 = i)
                    # (T.nodes[T.nodes[i].parent].child2 = i)
       /\ \A i \in Internal :
             /\ T.nodes[i].child1 \in Live
             /\ T.nodes[i].child2 \in Live
             /\ T.nodes[i].child1 # T.nodes[i].child2
             /\ T.nodes[i].height = 1 + b2Max(T.nodes[T.nodes[i].child1].height,
                                              T.nodes[T.nodes[i].child2].height)
             /\ T.nodes[i].aabb = Combine(T.nodes[T.nodes[i].child1].aabb,
                                          T.nodes[T.nodes[i].child2].aabb)
       /\ \A i \in Live \ Internal :
             T.nodes[i].child2 = b2_nullNode /\ T.nodes[i].height = 0
       /\ \A j, k \in 1 .. Len(visited) : visited[j] = visited[k] => j = k
       /\ Entries(visited) = Live
       /\ \A j, k \in 1 .. Len(free) : free[j] = free[k] => j = k
       /\ Entries(free) = Pool \ Live
       /\ \A f \in Entries(free) : T.nodes[f].height = -1
       /\ Len(free) + T.nodeCount = T.nodeCapacity

\* The step rebuilt tree T into tree U as C36 says: the same leaves with the
\* same AABBs and userData, a valid root, and the invariants.
RebuiltAsSpecified(T, U) ==
    LET Leaves(S) == {i \in 0 .. S.nodeCapacity - 1 :
                          S.nodes[i].height >= 0 /\ S.nodes[i].child1 = b2_nullNode}
    IN /\ U.nodeCapacity = T.nodeCapacity
       /\ Leaves(U) = Leaves(T)
       /\ \A l \in Leaves(T) : /\ U.nodes[l].aabb = T.nodes[l].aabb
                               /\ U.nodes[l].userData = T.nodes[l].userData
       /\ ValidRoot(U)
       /\ ValidTree(U)

\* C36: RebuildBottomUp, called on any reachable tree, the empty tree and a
\* single-leaf tree included, keeps the set of leaf ids with their AABBs and
\* userData and leaves a tree that satisfies the structure, height, AABB-union
\* and free-list invariants with a valid root.
C36_RebuildKeepsLeavesAndValidity ==
    [][lastOp'.op = "RebuildBottomUp" =>
          /\ lastOp'.prev # "uninitialized read"   \* m_root is a value the code stored
          /\ RebuiltAsSpecified(Tree, Tree')]_lastOp


\* ---------------------------------------------------------------- C37
\* The positions of the outstanding entries that lie in the arena.
ArenaEntries == {i \in 1 .. m_entryCount : ~m_entries[i].usedMalloc}

\* C37: in every reachable state of the stack allocator m_allocation is the
\* sum of the sizes of the outstanding entries, m_index the sum of the sizes
\* of the outstanding entries in the arena, the arena ranges of those entries
\* are pairwise disjoint and lie within [0, m_index), and when every entry has
\* been freed m_index, m_allocation and m_entryCount are 0, as the destructor
\* asserts.
C37_StackAccounting ==
    /\ m_entryCount = Len(m_entries)
    /\ m_allocation = Outstanding(m_entries)
    /\ m_index = ArenaBytes(m_entries)
    /\ \A i \in ArenaEntries :
          /\ ~m_entries[i].data.heap
          /\ 0 <= m_entries[i].data.at
          /\ m_entries[i].data.at + m_entries[i].size <= m_index
    /\ \A i, j \in ArenaEntries :
          i < j => m_entries[i].data.at + m_entries[i].size <= m_entries[j].data.at
    /\ m_entries = <<>> => m_index = 0 /\ m_allocation = 0 /\ m_entryCount = 0

\* After a Free two entries lie in the arena, the first of them not empty,
\* and another entry is on the heap.
C37_Witness ==
    /\ stackOp.op = "Free"
    /\ \E i, j \in ArenaEntries : i < j /\ m_entries[i].size > 0
    /\ \E i \in 1 .. m_entryCount : m_entries[i].usedMalloc


\* ---------------------------------------------------------------- C38
\* The counts of both buffers are within their capacities.
BuffersWithinCapacity ==
    /\ 0 <= m_moveCount /\ m_moveCount <= m_moveCapacity
    /\ Len(m_moveBuffer) = m_moveCount
    /\ 0 <= m_pairCount /\ m_pairCount <= m_pairCapacity
    /\ Len(m_pairBuffer) = m_pairCount

\* A step of the move buffer: the capacity changes only by doubling, when the
\* buffer is full and an entry is added; an added entry is written at index
\* m_moveCount, inside the new capacity, behind the entries there were.
MoveBufferStep ==
    /\ m_moveCapacity' # m_moveCapacity =>
          /\ m_moveCapacity' = 2 * m_moveCapacity
          /\ m_moveCapacity' > m_moveCapacity
          /\ m_moveCount = m_moveCapacity
          /\ m_moveCount' = m_moveCount + 1
    /\ m_moveCount' > m_moveCount =>
          /\ m_moveCount' = m_moveCount + 1
          /\ m_moveCount < m_moveCapacity'
          /\ SubSeq(m_moveBuffer', 1, m_moveCount) = m_moveBuffer
          /\ m_moveBuffer'[m_moveCount'] = lastOp'.id

\* The calls of QueryCallback that UpdatePairs makes on tree T with the move
\* buffer from entry i on, in order: <<m_queryProxyId, proxyId>> each.
RECURSIVE UpdatePairsCallbacks(_, _, _)
UpdatePairsCallbacks(T, moveBuffer, i) ==
    IF i > Len(moveBuffer) THEN <<>>
    ELSE IF moveBuffer[i] = e_nullProxy THEN UpdatePairsCallbacks(T, moveBuffer, i + 1)
    ELSE LET hits == Query(T, GetFatAABB(T, moveBuffer[i]))
         IN [k \in 1 .. Len(hits) |-> <<moveBuffer[i], hits[k]>>]
                \o UpdatePairsCallbacks(T, moveBuffer, i + 1)

\* One call of QueryCallback took the pair buffer from P to Q: the capacity
\* changes only from c to c + c/2, which is more, when the buffer is full and
\* a pair is added; an added pair is written at index P.pairCount, inside the
\* new capacity, behind the pairs there were.
PairBufferStep(P, Q) ==
    /\ Q.pairCapacity # P.pairCapacity =>
          /\ Q.pairCapacity = P.pairCapacity + P.pairCapacity \div 2
          /\ Q.pairCapacity > P.pairCapacity
          /\ P.pairCount = P.pairCapacity
          /\ Q.pairCount = P.pairCount + 1
    /\ Q.pairCount # P.pairCount =>
          /\ Q.pairCount = P.pairCount + 1
          /\ P.pairCount < Q.pairCapacity
          /\ SubSeq(Q.pairBuffer, 1, P.pairCount) = P.pairBuffer
    /\ Q.pairCount <= Q.pairCapacity
    /\ Len(Q.pairBuffer) = Q.pairCount

\* Every call from the i-th on of calls is a PairBufferStep, starting with
\* pair buffer P on tree T, and the last one ends with pair buffer end.
RECURSIVE PairBufferSteps(_, _, _, _, _)
PairBufferSteps(P, T, calls, i, end) ==
    IF i > Len(calls) THEN P = end
    ELSE LET Rest(Q) == PairBufferStep(P, Q) /\ PairBufferSteps(Q, T, calls, i + 1, end)
         IN Rest(QueryCallback(P, T, calls[i][1], calls[i][2]))

\* The pair buffer in a step: UpdatePairs empties it, keeping its capacity,
\* and fills it call by call; no other operation touches it.
PairBufferStepsOfUpdate ==
    IF lastOp'.op = "UpdatePairs"
    THEN PairBufferSteps(ResetPairs(Pairs), Tree,
                         UpdatePairsCallbacks(Tree, m_moveBuffer, 1), 1, Pairs')
    ELSE UNCHANGED pairVars

\* C38: every write to the move buffer and to the pair buffer is within the
\* current capacity, 0 <= m_moveCount <= m_moveCapacity and 0 <= m_pairCount
\* <= m_pairCapacity hold always, and each growth strictly increases the
\* capacity (twice the capacity for the move buffer, capacity + capacity/2
\* for the pair buffer, both from 16) and keeps the entries in order.
C38_BuffersGrowInBounds ==
    /\ m_moveCapacity = InitialMoveCapacity /\ m_pairCapacity = InitialPairCapacity
    /\ [](BuffersWithinCapacity)
    /\ [][MoveBufferStep /\ PairBufferStepsOfUpdate]_vars

\* An UpdatePairs has run with the move buffer grown twice and has grown the
\* pair buffer twice: more than 24 pairs were written.
C38_Witness ==
    /\ lastOp.op = "UpdatePairs"
    /\ m_moveCapacity = 4 * InitialMoveCapacity
    /\ Len(lastOp.moves) > 2 * InitialMoveCapacity
    /\ m_pairCapacity > InitialPairCapacity + InitialPairCapacity \div 2
    /\ m_pairCount > InitialPairCapacity + InitialPairCapacity \div 2


\* ---------------------------------------------------------------- C39
\* The number of parent links from node i of tree T to the root.
Depth(T, i) == Len(Chain(T.nodes, i, T.nodeCapacity + 1)) - 1

\* The levels the upward walk visits from index on, at most fuel of them: the
\* depth of each node the walk calls Balance with, in the tree as it is then;
\* -1 at the end if the walk has not reached the null parent by then.
RECURSIVE WalkLevels(_, _, _)
WalkLevels(T, index, fuel) ==
    IF index = b2_nullNode THEN <<>>
    ELSE IF fuel = 0 THEN <<-1>>
    ELSE LET Up(w) == WalkLevels(w.T, w.T.nodes[w.id].parent, fuel - 1)
         IN <<Depth(T, index)>> \o Up(WalkStep(T, index))

\* The walk from index visits the level of index and every level above it
\* once, in order, and ends above the root.
WalkClimbs(T, index) ==
    LET levels == WalkLevels(T, index, T.nodeCapacity)
        d == Depth(T, index)
    IN /\ Len(levels) = d + 1
       /\ \A k \in 1 .. Len(levels) : levels[k] = d - (k - 1)

\* The sibling descent of InsertLeaf for leaf on tree T ends at a node below
\* the root, after no more steps than the root is high: at a leaf or earlier.
DescentEnds(T, leaf) ==
    LET sibling == FindSibling(T, T.nodes[leaf].aabb, T.root)
        path == Chain(T.nodes, sibling, T.nodeCapacity + 1)
    IN /\ sibling \in 0 .. T.nodeCapacity - 1
       /\ T.nodes[sibling].height >= 0
       /\ path[Len(path)] = T.root
       /\ Len(path) - 1 <= T.nodes[T.root].height
       /\ IsLeaf(T.nodes[sibling]) \/ Len(path) - 1 < T.nodes[T.root].height

\* InsertLeaf(leaf) on tree T comes to its end.
InsertLeafEnds(T, leaf) ==
    LET Walk(S) == WalkClimbs(S, S.nodes[leaf].parent)
    IN T.root # b2_nullNode => DescentEnds(T, leaf) /\ Walk(LinkLeaf(T, leaf))

\* RemoveLeaf(leaf) on tree T comes to its end.
RemoveLeafEnds(T, leaf) ==
    LET parent == T.nodes[leaf].parent
    IN (leaf # T.root /\ T.nodes[parent].parent # b2_nullNode)
           => WalkClimbs(UnlinkLeaf(T, leaf), T.nodes[parent].parent)

\* The tree MoveProxy(leaf, aabb) inserts the leaf into again.
MoveProxyRemoved(T, leaf, aabb) ==
    LET Refit(S) == [S EXCEPT !.nodes[leaf].aabb = PredictedFatAABB(aabb, NoVec)]
    IN Refit(RemoveLeaf(T, leaf))

\* C39: every CreateProxy, DestroyProxy and MoveProxy step on a reachable tree
\* terminates: the sibling descent of InsertLeaf ends at a leaf or earlier,
\* and the upward walks of InsertLeaf and RemoveLeaf reach the null parent of
\* the root after visiting each ancestor level once at most, also when
\* Balance replaces the current node by its promoted child.
C39_DescentAndWalksEnd ==
    [][/\ lastOp'.op = "CreateProxy" =>
             LET Insert(p) == InsertLeafEnds(p.T, p.id)
             IN Insert(NewLeaf(Tree, lastOp'.aabb, lastOp'.userData))
       /\ lastOp'.op = "DestroyProxy" => RemoveLeafEnds(Tree, lastOp'.id)
       /\ (lastOp'.op = "MoveProxy" /\ lastOp'.ret) =>
             /\ RemoveLeafEnds(Tree, lastOp'.id)
             /\ InsertLeafEnds(MoveProxyRemoved(Tree, lastOp'.id, lastOp'.aabb),
                               lastOp'.id)]_vars

\* Balance promotes a child of iA, which is not the root.
PromotesBelowRoot(T, iA) ==
    LET Promoted(b) == b.id # iA
    IN T.nodes[iA].parent # b2_nullNode /\ Promoted(Balance(T, iA))

\* The next CreateProxy or DestroyProxy walks over three levels or more and
\* Balance replaces the current node below the root on the way.
C39_Witness ==
    /\ ProxyOpDone
    /\ \/ \E aabb \in GrowBoxes :
             LET Seen(calls) == Len(calls) >= 3 /\ SomeCall(calls, PromotesBelowRoot)
             IN Seen(CreateBalanceCalls(Tree, aabb, "Z"))
       \/ \E leaf \in proxyIds :
             LET Seen(calls) == Len(calls) >= 3 /\ SomeCall(calls, PromotesBelowRoot)
             IN Seen(DestroyBalanceCalls(Tree, leaf))

====
